---- MODULE Spec2Model ----
(***************************************************************************)
(* A model of the liftoff interpreter (jo3-l/liftoff): the recursive       *)
(* descent parser with its C-style for lowering (parse/parser.py) and the  *)
(* tree-walking evaluator with its lexically scoped environment            *)
(* (runtime/interpreter.py).  Parser and evaluator methods are recursive   *)
(* operators that keep the names of the methods they model (without the    *)
(* leading underscore); the pipeline of liftoff.evaluate is the state      *)
(* machine.                                                                *)
(***************************************************************************)
EXTENDS Integers, Sequences, FiniteSets, TLC

VARIABLES lexer, lex_exc, tokens, built_in_fns, parser, phase, ast, pc, rt, failure, prev

vars == <<lexer, lex_exc, tokens, built_in_fns, parser, phase, ast, pc, rt, failure, prev>>

\* prev is what the latest call on the Lexer or Parser instance found: the fields of
\* the instance, and how the call before it ended ("new" for a new instance).
Fresh(inst) == [inst |-> inst, phase |-> "new"]

\* fn is [x \in {v} |-> e]: e with x naming the value v, which is computed once.
Bind(fn) == fn[CHOOSE x \in DOMAIN fn : TRUE]

(***************************************************************************)
(* Tokens (parse/tokens.py).  A token is (kind, val, line, col).           *)
(***************************************************************************)
Token(kind, val, line, col) == [kind |-> kind, val |-> val, line |-> line, col |-> col]

KEYWORDS == {"break", "catch", "continue", "else", "fn", "for", "if", "in",
             "let", "return", "try", "while"}

KeywordKind(word) ==
    CASE word = "break" -> "BREAK"
      [] word = "catch" -> "CATCH"
      [] word = "continue" -> "CONTINUE"
      [] word = "else" -> "ELSE"
      [] word = "fn" -> "FN"
      [] word = "for" -> "FOR"
      [] word = "if" -> "IF"
      [] word = "in" -> "IN"
      [] word = "let" -> "LET"
      [] word = "return" -> "RETURN"
      [] word = "try" -> "TRY"
      [] word = "while" -> "WHILE"

SYNTAX == {",", ":", "=", "{", "}", "(", ")", "[", "]", ";"}

SyntaxKind(c) ==
    CASE c = "," -> "COMMA"
      [] c = ":" -> "COLON"
      [] c = "=" -> "EQ"
      [] c = "{" -> "LEFT_BRACE"
      [] c = "}" -> "RIGHT_BRACE"
      [] c = "(" -> "LEFT_PAREN"
      [] c = ")" -> "RIGHT_PAREN"
      [] c = "[" -> "LEFT_SQUARE_BRACKET"
      [] c = "]" -> "RIGHT_SQUARE_BRACKET"
      [] c = ";" -> "SEMICOLON"

(***************************************************************************)
(* AST nodes (parse/nodes.py).  Every node is a record tagged by t and     *)
(* carrying (line, col).  None is Python's None.                           *)
(***************************************************************************)
None == [t |-> "None"]

IsNone(x) == x.t = "None"

BlockStmt(line, col, stmts) ==
    [t |-> "BlockStmt", line |-> line, col |-> col, stmts |-> stmts]

CallExpr(line, col, callee, args) ==
    [t |-> "CallExpr", line |-> line, col |-> col, callee |-> callee, args |-> args]

AttrAccessExpr(line, col, obj, attr_name) ==
    [t |-> "AttrAccessExpr", line |-> line, col |-> col, obj |-> obj,
     attr_name |-> attr_name]

AttrAssignmentExpr(line, col, obj, attr_name, val) ==
    [t |-> "AttrAssignmentExpr", line |-> line, col |-> col, obj |-> obj,
     attr_name |-> attr_name, val |-> val]

ItemAccessExpr(line, col, obj, key) ==
    [t |-> "ItemAccessExpr", line |-> line, col |-> col, obj |-> obj, key |-> key]

ItemAssignmentExpr(line, col, obj, key, val) ==
    [t |-> "ItemAssignmentExpr", line |-> line, col |-> col, obj |-> obj,
     key |-> key, val |-> val]

\* Runtime values are records (k, n): kind and payload.
Val(k, n) == [k |-> k, n |-> n]

NullVal == Val("null", 0)

BoolVal(b) == Val("bool", IF b THEN 1 ELSE 0)

IntVal(n) == Val("int", n)

BoolLitExpr(line, col, val) ==
    [t |-> "BoolLitExpr", line |-> line, col |-> col, val |-> BoolVal(val)]

FloatLitExpr(line, col, val) ==
    [t |-> "FloatLitExpr", line |-> line, col |-> col, val |-> val]

IntLitExpr(line, col, val) ==
    [t |-> "IntLitExpr", line |-> line, col |-> col, val |-> IntVal(val)]

StrLitExpr(line, col, val) ==
    [t |-> "StrLitExpr", line |-> line, col |-> col, val |-> val]

NullLitExpr(line, col) ==
    [t |-> "NullLitExpr", line |-> line, col |-> col, val |-> NullVal]

ListLitExpr(line, col, values) ==
    [t |-> "ListLitExpr", line |-> line, col |-> col, values |-> values]

DictLitExpr(line, col, entries) ==
    [t |-> "DictLitExpr", line |-> line, col |-> col, entries |-> entries]

VarDeclStmt(line, col, var_name, val) ==
    [t |-> "VarDeclStmt", line |-> line, col |-> col, var_name |-> var_name,
     val |-> val]

AssignmentExpr(line, col, name, val) ==
    [t |-> "AssignmentExpr", line |-> line, col |-> col, name |-> name, val |-> val]

AccessExpr(line, col, name) ==
    [t |-> "AccessExpr", line |-> line, col |-> col, name |-> name]

IfStmt(line, col, cond, if_branch, else_branch) ==
    [t |-> "IfStmt", line |-> line, col |-> col, cond |-> cond,
     if_branch |-> if_branch, else_branch |-> else_branch]

FnDefinition(line, col, name, param_names, body_block) ==
    [t |-> "FnDefinition", line |-> line, col |-> col, name |-> name,
     param_names |-> param_names, body_block |-> body_block]

ReturnStmt(line, col, return_val) ==
    [t |-> "ReturnStmt", line |-> line, col |-> col, return_val |-> return_val]

WhileLoopStmt(line, col, cond, body_block) ==
    [t |-> "WhileLoopStmt", line |-> line, col |-> col, cond |-> cond,
     body_block |-> body_block]

IteratorBasedForLoopStmt(line, col, iterator_var_binding_name, expr, body_block) ==
    [t |-> "IteratorBasedForLoopStmt", line |-> line, col |-> col,
     iterator_var_binding_name |-> iterator_var_binding_name, expr |-> expr,
     body_block |-> body_block]

BreakStmt(line, col) == [t |-> "BreakStmt", line |-> line, col |-> col]

ContinueStmt(line, col) == [t |-> "ContinueStmt", line |-> line, col |-> col]

\* The dataclass field order: try_block, catch_block, err_var_binding_name.
TryStmt(line, col, try_block, catch_block, err_var_binding_name) ==
    [t |-> "TryStmt", line |-> line, col |-> col, try_block |-> try_block,
     catch_block |-> catch_block, err_var_binding_name |-> err_var_binding_name]

\* A Python str held where a node may also be held (TryStmt.err_var_binding_name).
Str(s) == [t |-> "str", s |-> s]

SimpleLitTypes == {"BoolLitExpr", "FloatLitExpr", "IntLitExpr", "StrLitExpr", "NullLitExpr"}

ExprTypes == SimpleLitTypes \cup
    {"CallExpr", "AttrAccessExpr", "AttrAssignmentExpr", "ItemAccessExpr",
     "ItemAssignmentExpr", "ListLitExpr", "DictLitExpr", "AssignmentExpr", "AccessExpr"}

StmtTypes == ExprTypes \cup
    {"BlockStmt", "VarDeclStmt", "IfStmt", "ReturnStmt", "WhileLoopStmt",
     "IteratorBasedForLoopStmt", "BreakStmt", "ContinueStmt", "TryStmt"}

\* isinstance(node, nodes.StmtNode) / isinstance(node, nodes.ExprNode)
IsStmtNode(node) == node.t \in StmtTypes

IsExprNode(node) == node.t \in ExprTypes

(***************************************************************************)
(* Lexer (parse/lexer.py).  A source text is the sequence of its           *)
(* characters, each a string of length one.  The lexer object's fields     *)
(* _src, _line, _col and _pos are the record l; a method's outcome is      *)
(* (l, val, exc): the fields after the call, the value returned and the    *)
(* exception raised (NoExc when none).                                     *)
(***************************************************************************)
NoExc == [type |-> "", msg |-> "", line |-> -1, col |-> -1]

\* SyntaxError(msg, line, col) of parse/errors.py
SyntaxErrorAt(msg, line, col) ==
    [type |-> "SyntaxError", msg |-> msg, line |-> line, col |-> col]

\* InternalError(msg) of common/errors.py, which carries no position
InternalErrorOf(msg) == [type |-> "InternalError", msg |-> msg, line |-> -1, col |-> -1]

LR(l, val, exc) == [l |-> l, val |-> val, exc |-> exc]

LFailed(r) == r.exc # NoExc

\* str.isspace, str.isdigit and str.isalpha on the characters of ASCII
IsSpace(c) == c \in {" ", "\t", "\n", "\r"}

IsDigit(c) == c \in {"0", "1", "2", "3", "4", "5", "6", "7", "8", "9"}

IsAlpha(c) ==
    c \in {"a", "b", "c", "d", "e", "f", "g", "h", "i", "j", "k", "l", "m",
           "n", "o", "p", "q", "r", "s", "t", "u", "v", "w", "x", "y", "z",
           "A", "B", "C", "D", "E", "F", "G", "H", "I", "J", "K", "L", "M",
           "N", "O", "P", "Q", "R", "S", "T", "U", "V", "W", "X", "Y", "Z"}

is_word_char(c) == IsAlpha(c) \/ IsDigit(c) \/ c = "_"

\* pred(c) for the predicates _accept_run is called with
Pred(pred, c) ==
    CASE pred = "isspace" -> IsSpace(c)
      [] pred = "isdigit" -> IsDigit(c)
      [] pred = "is_word_char" -> is_word_char(c)

l_is_done(l) == l.pos >= Len(l.src)

\* A _next that counts a newline as any other character.
l_next_one_line(l) ==
    IF l_is_done(l)
    THEN LR(l, "", InternalErrorOf("lexer: next called on finished lexer"))
    ELSE LR([l EXCEPT !.pos = @ + 1, !.col = @ + 1], l.src[l.pos + 1], NoExc)

l_next(l) ==
    IF l_is_done(l)
    THEN LR(l, "", InternalErrorOf("lexer: next called on finished lexer"))
    ELSE Bind([c \in {l.src[l.pos + 1]} |->
         LR([l EXCEPT !.pos = @ + 1,
                      !.line = IF c = "\n" THEN @ + 1 ELSE @,
                      !.col = IF c = "\n" THEN 1 ELSE @ + 1],
            c, NoExc)])

l_save(l) == [line |-> l.line, col |-> l.col, pos |-> l.pos]

l_restore(l, state) ==
    [l EXCEPT !.line = state.line, !.col = state.col, !.pos = state.pos]

l_peek(l) ==
    Bind([init_state \in {l_save(l)} |->
    Bind([r \in {l_next(l)} |->
    IF LFailed(r) THEN r ELSE LR(l_restore(r.l, init_state), r.val, NoExc)])])

\* chars is the text accepted so far, joined.
RECURSIVE accept_run(_, _, _)
accept_run(l, pred, chars) ==
    IF l_is_done(l) THEN LR(l, chars, NoExc)
    ELSE Bind([c \in {l_peek(l)} |->
         IF LFailed(c) THEN c
         ELSE IF Pred(pred, c.val)
         THEN Bind([n \in {l_next(c.l)} |->
              IF LFailed(n) THEN n ELSE accept_run(n.l, pred, chars \o c.val)])
         ELSE LR(c.l, chars, NoExc)])

lex_identifier(l) ==
    Bind([w \in {accept_run(l, "is_word_char", "")} |->
    IF LFailed(w) THEN w
    ELSE IF w.val \in KEYWORDS
    THEN LR(w.l, Token(KeywordKind(w.val), w.val, l.line, l.col), NoExc)
    ELSE IF w.val = "true" \/ w.val = "false"
    THEN LR(w.l, Token("BOOL_LIT", w.val, l.line, l.col), NoExc)
    ELSE IF w.val = "null"
    THEN LR(w.l, Token("NULL_LIT", w.val, l.line, l.col), NoExc)
    ELSE LR(w.l, Token("IDENTIFIER", w.val, l.line, l.col), NoExc)])

\* The while loop of _lex_multiline_comment; val is (c1, c2) when it ends.
RECURSIVE multiline_comment_loop(_, _, _)
multiline_comment_loop(l, c1, c2) ==
    IF (~l_is_done(l) /\ c1 # "*") \/ c2 # "/"
    THEN Bind([n \in {l_next(l)} |->
         IF LFailed(n) THEN n ELSE multiline_comment_loop(n.l, c2, n.val)])
    ELSE LR(l, <<c1, c2>>, NoExc)

lex_multiline_comment(l) ==
    Bind([n1 \in {l_next(l)} |->
    IF LFailed(n1) THEN n1
    ELSE Bind([n2 \in {l_next(n1.l)} |->
         IF LFailed(n2) THEN n2
         ELSE Bind([w \in {multiline_comment_loop(n2.l, n1.val, n2.val)} |->
              IF LFailed(w) THEN w
              ELSE IF w.val[1] # "*" \/ w.val[2] # "/"
              THEN LR(w.l, None, SyntaxErrorAt("unclosed multiline comment", l.line, l.col))
              ELSE LR(w.l, None, NoExc)])])])

RECURSIVE lex_line_comment(_)
lex_line_comment(l) ==
    IF l_is_done(l) THEN LR(l, None, NoExc)
    ELSE Bind([n \in {l_next(l)} |->
         IF LFailed(n) THEN n
         ELSE IF n.val # "\n" THEN lex_line_comment(n.l)
         ELSE LR(n.l, None, NoExc)])

lex_num_lit(l) ==
    Bind([whole \in {accept_run(l, "isdigit", "")} |->
    IF LFailed(whole) THEN whole
    ELSE Bind([c \in {l_peek(whole.l)} |->
         IF LFailed(c) THEN c
         ELSE IF c.val = "."
         THEN Bind([i \in {l_next(c.l)} |->
              IF LFailed(i) THEN i
              ELSE Bind([frac \in {accept_run(i.l, "isdigit", "")} |->
                   IF LFailed(frac) THEN frac
                   ELSE LR(frac.l,
                           Token("FLOAT_LIT", whole.val \o "." \o frac.val, l.line, l.col),
                           NoExc)])])
         ELSE LR(c.l, Token("INT_LIT", whole.val, l.line, l.col), NoExc)])])

\* The while loop of _lex_str_lit; val is (in_escape, found_close) when it ends.
RECURSIVE str_lit_loop(_, _)
str_lit_loop(l, in_escape) ==
    IF l_is_done(l) THEN LR(l, <<in_escape, FALSE>>, NoExc)
    ELSE Bind([c \in {l_next(l)} |->
         IF LFailed(c) THEN c
         ELSE IF in_escape THEN str_lit_loop(c.l, FALSE)
         ELSE IF c.val = "\\" THEN str_lit_loop(c.l, TRUE)
         ELSE IF c.val = "\"" THEN LR(c.l, <<in_escape, TRUE>>, NoExc)
         ELSE str_lit_loop(c.l, in_escape)])

\* "".join of the characters src[i:j]
RECURSIVE Slice(_, _, _)
Slice(src, i, j) == IF i >= j THEN "" ELSE src[i + 1] \o Slice(src, i + 1, j)

lex_str_lit(l) ==
    Bind([i \in {l_next(l)} |->
    IF LFailed(i) THEN i
    ELSE Bind([w \in {str_lit_loop(i.l, FALSE)} |->
         IF LFailed(w) THEN w
         ELSE IF ~w.val[2]
         THEN LR(w.l, None, SyntaxErrorAt("unclosed string literal", l.line, l.col))
         ELSE IF w.val[1]
         THEN LR(w.l, None,
                 SyntaxErrorAt("unexpected escape character at end of string literal",
                               l.line, l.col))
         ELSE LR(w.l, Token("STR_LIT", Slice(l.src, l.pos, w.l.pos), l.line, l.col),
                 NoExc)])])

\* val is the token, or None.
RECURSIVE lex_any(_)
lex_any(l0) ==
    Bind([ws \in {accept_run(l0, "isspace", "")} |->
    IF LFailed(ws) THEN ws
    ELSE IF l_is_done(ws.l) THEN LR(ws.l, None, NoExc)
    ELSE Bind([l \in {ws.l} |->
         Bind([n \in {l_next(l)} |->
         IF LFailed(n) THEN n
         ELSE Bind([c \in {n.val} |->
      CASE IsAlpha(c) \/ c = "_" -> lex_identifier(l_restore(n.l, l_save(l)))
        [] c \in SYNTAX -> LR(n.l, Token(SyntaxKind(c), c, l.line, l.col), NoExc)
        [] c = "/" ->
             IF l_is_done(n.l)
             THEN LR(n.l, None,
                     SyntaxErrorAt("unexpected character '/'", l.line, l.col))
             ELSE Bind([nxt \in {l_peek(n.l)} |->
                  IF LFailed(nxt) THEN nxt
                  ELSE Bind([cm \in {IF nxt.val = "*" THEN lex_multiline_comment(nxt.l)
                                     ELSE IF nxt.val = "/" THEN lex_line_comment(nxt.l)
                                     ELSE LR(nxt.l, None,
                                             SyntaxErrorAt("unexpected character '/'",
                                                           l.line, l.col))} |->
                       IF LFailed(cm) THEN cm
                       ELSE IF l_is_done(cm.l) THEN LR(cm.l, None, NoExc)
                       ELSE lex_any(cm.l)])])
        [] c = "." ->
             IF l_is_done(n.l)
             THEN LR(n.l, None,
                     SyntaxErrorAt("unexpected character '.'", l.line, l.col))
             ELSE Bind([pk \in {l_peek(n.l)} |->
                  IF LFailed(pk) THEN pk
                  ELSE IF IsAlpha(pk.val) \/ pk.val = "_"
                  THEN Bind([attr \in {accept_run(pk.l, "is_word_char", "")} |->
                       IF LFailed(attr) THEN attr
                       ELSE LR(attr.l,
                               Token("ATTR_ACCESS", "." \o attr.val, l.line, l.col),
                               NoExc)])
                  ELSE lex_num_lit(l_restore(pk.l, l_save(l)))])
        [] c = "\"" -> lex_str_lit(l_restore(n.l, l_save(l)))
        [] IsDigit(c) -> lex_num_lit(l_restore(n.l, l_save(l)))
        [] OTHER ->
             LR(n.l, None,
                SyntaxErrorAt("unexpected character '" \o c \o "'", l.line, l.col))])])])])

\* The while loop of lex; val is the list of tokens.
RECURSIVE lex_loop(_, _)
lex_loop(l, toks) ==
    Bind([tok \in {lex_any(l)} |->
    IF LFailed(tok) THEN tok
    ELSE IF tok.val = None
    THEN LR(tok.l, Append(toks, Token("EOF", "", tok.l.line, tok.l.col)), NoExc)
    ELSE lex_loop(tok.l, Append(toks, tok.val))])

\* A _reset that rewinds the position and keeps the line and the column.
l_reset_pos_only(l) == [l EXCEPT !.pos = 0]

l_reset(l) == [l EXCEPT !.line = 1, !.col = 1, !.pos = 0]

lex(l, src) == lex_loop(l_reset([l EXCEPT !.src = src]), <<>>)

\* Lexer.__init__; the source is the empty text.
NewLexer == [src |-> <<>>, line |-> 1, col |-> 1, pos |-> 0]

(***************************************************************************)
(* Parser (parse/parser.py).  The parser object's fields _pos, _loop_depth *)
(* and _in_fn_decl are the record p; a method's outcome is (p, node, err): *)
(* the parser fields after the call, the value returned and the exception  *)
(* raised ("" when none).  An exception leaves p as it was when raised.    *)
(***************************************************************************)
PR(p, node, err) == [p |-> p, node |-> node, err |-> err]

Failed(r) == r.err # ""

\* int(tok.val) for the literals used.
PyInt(val) ==
    CASE val = "0" -> 0
      [] val = "1" -> 1
      [] val = "2" -> 2
      [] val = "3" -> 3
      [] val = "4" -> 4
      [] val = "5" -> 5
      [] val = "6" -> 6
      [] val = "7" -> 7
      [] val = "8" -> 8
      [] val = "42" -> 42
      [] val = "99" -> 99

\* float(tok.val) in tenths; float(".") raises ValueError.
PyFloatFails(val) == val = "."

PyFloat(val) ==
    CASE val = "0.5" -> 5
      [] val = ".5" -> 5
      [] val = "1." -> 10
      [] val = "1.5" -> 15
      [] val = "2.0" -> 20

\* ast.literal_eval(tok.val) of a raw quoted literal; it raises on invalid escapes.
LiteralEvalFails(val) == val \in {"\"\\x\"", "\"\\\""}

literal_eval(val) ==
    CASE val = "\"\"" -> ""
      [] val = "\"a\"" -> "a"
      [] val = "\"hello\"" -> "hello"
      [] val = "\"caught\"" -> "caught"

p_next(toks, p) ==
    IF p.pos >= Len(toks)
    THEN PR(p, None, "IndexError")
    ELSE PR([p EXCEPT !.pos = @ + 1], toks[p.pos + 1], "")

p_backup(p, n) ==
    IF p.pos < n
    THEN PR(p, None, "InternalError")
    ELSE PR([p EXCEPT !.pos = @ - n], None, "")

p_peek(toks, p) ==
    Bind([r \in {p_next(toks, p)} |->
    IF Failed(r) THEN r
    ELSE Bind([b \in {p_backup(r.p, 1)} |->
         IF Failed(b) THEN b ELSE PR(b.p, r.node, "")])])

\* node is TRUE/FALSE for the boolean-valued helpers.
p_accept(toks, p, kinds) ==
    Bind([r \in {p_peek(toks, p)} |->
    IF Failed(r) THEN r
    ELSE IF r.node.kind \in kinds
         THEN Bind([n \in {p_next(toks, r.p)} |-> PR(n.p, TRUE, n.err)])
         ELSE PR(r.p, FALSE, "")])

p_lookahead(toks, p, kinds) ==
    Bind([r \in {p_peek(toks, p)} |->
    IF Failed(r) THEN r ELSE PR(r.p, r.node.kind \in kinds, "")])

\* _expect that takes the EOF token for any kind it was asked for.
p_expect_eof_passes(toks, p, kinds) ==
    Bind([r \in {p_next(toks, p)} |->
    IF Failed(r) THEN r
    ELSE IF r.node.kind \notin kinds \cup {"EOF"}
         THEN PR(r.p, None, "SyntaxError")
         ELSE r])

p_expect(toks, p, kinds) ==
    Bind([r \in {p_next(toks, p)} |->
    IF Failed(r) THEN r
    ELSE IF r.node.kind \notin kinds
         THEN PR(r.p, None, "SyntaxError")
         ELSE r])

p_is_done(toks, p) ==
    IF p.pos >= Len(toks)
    THEN PR(p, None, "IndexError")
    ELSE PR(p, toks[p.pos + 1].kind = "EOF", "")

RECURSIVE parse_stmt(_, _)
RECURSIVE parse_block(_, _)
RECURSIVE parse_block_loop(_, _, _)
RECURSIVE parse_expr(_, _)
RECURSIVE finish_expr(_, _, _)
RECURSIVE parse_call_expr(_, _, _)
RECURSIVE parse_call_args(_, _, _)
RECURSIVE parse_attr_access_or_assignment(_, _, _)
RECURSIVE parse_item_access_or_assignment(_, _, _)
RECURSIVE parse_assignment_expr(_, _)
RECURSIVE parse_list_lit_expr(_, _)
RECURSIVE parse_list_values(_, _, _)
RECURSIVE parse_dict_lit_expr(_, _)
RECURSIVE parse_dict_entries(_, _, _)
RECURSIVE parse_if_stmt(_, _)
RECURSIVE parse_if_stmt_else_branch(_, _)
RECURSIVE parse_for_loop(_, _)
RECURSIVE parse_for_loop_stmt(_, _, _)
RECURSIVE parse_iterator_based_for_loop_stmt(_, _, _)
RECURSIVE parse_try_stmt(_, _)
RECURSIVE parse_while_loop_stmt(_, _)
RECURSIVE rewrite_continue_stmts(_, _)
RECURSIVE rewrite_continue_list(_, _)

\* while not self._accept(RIGHT_PAREN): [expect COMMA]; args.append(parse_expr())
parse_call_args(toks, p, args) ==
    Bind([a \in {p_accept(toks, p, {"RIGHT_PAREN"})} |->
    IF Failed(a) THEN a
    ELSE IF a.node THEN PR(a.p, args, "")
    ELSE Bind([c \in {IF Len(args) > 0 THEN p_expect(toks, a.p, {"COMMA"})
                  ELSE PR(a.p, None, "")} |->
         IF Failed(c) THEN c
         ELSE Bind([e \in {parse_expr(toks, c.p)} |->
              IF Failed(e) THEN e
              ELSE parse_call_args(toks, e.p, Append(args, e.node))])])])

parse_call_expr(toks, p, callee) ==
    Bind([l \in {p_expect(toks, p, {"LEFT_PAREN"})} |->
    IF Failed(l) THEN l
    ELSE Bind([a \in {parse_call_args(toks, l.p, <<>>)} |->
         IF Failed(a) THEN a
         ELSE PR(a.p, CallExpr(callee.line, callee.col, callee, a.node), "")])])

\* tok.val[1:] of an ATTR_ACCESS token: the text without its leading dot.
AttrName(val) ==
    CASE val = ".x" -> "x"
      [] val = ".y" -> "y"
      [] OTHER -> val

parse_attr_access_or_assignment(toks, p, obj) ==
    Bind([tk \in {p_expect(toks, p, {"ATTR_ACCESS"})} |->
    IF Failed(tk) THEN tk
    ELSE Bind([a \in {p_accept(toks, tk.p, {"EQ"})} |->
         IF Failed(a) THEN a
         ELSE IF a.node
         THEN Bind([v \in {parse_expr(toks, a.p)} |->
              IF Failed(v) THEN v
              ELSE PR(v.p, AttrAssignmentExpr(tk.node.line, tk.node.col, obj,
                                              AttrName(tk.node.val), v.node), "")])
         ELSE PR(a.p, AttrAccessExpr(tk.node.line, tk.node.col, obj,
                                     AttrName(tk.node.val)), "")])])

parse_item_access_or_assignment(toks, p, obj) ==
    Bind([tk \in {p_expect(toks, p, {"LEFT_SQUARE_BRACKET"})} |->
    IF Failed(tk) THEN tk
    ELSE Bind([k \in {parse_expr(toks, tk.p)} |->
         IF Failed(k) THEN k
         ELSE Bind([c \in {p_expect(toks, k.p, {"RIGHT_SQUARE_BRACKET"})} |->
              IF Failed(c) THEN c
              ELSE Bind([a \in {p_accept(toks, c.p, {"EQ"})} |->
                   IF Failed(a) THEN a
                   ELSE IF a.node
                   THEN Bind([v \in {parse_expr(toks, a.p)} |->
                        IF Failed(v) THEN v
                        ELSE PR(v.p, ItemAssignmentExpr(tk.node.line, tk.node.col, obj,
                                                        k.node, v.node), "")])
                   ELSE PR(a.p, ItemAccessExpr(tk.node.line, tk.node.col, obj, k.node), "")])])])])

parse_assignment_expr(toks, p) ==
    Bind([tk \in {p_expect(toks, p, {"IDENTIFIER"})} |->
    IF Failed(tk) THEN tk
    ELSE Bind([e \in {p_expect(toks, tk.p, {"EQ"})} |->
         IF Failed(e) THEN e
         ELSE Bind([v \in {parse_expr(toks, e.p)} |->
              IF Failed(v) THEN v
              ELSE PR(v.p, AssignmentExpr(tk.node.line, tk.node.col, tk.node.val, v.node), "")])])])

parse_list_values(toks, p, values) ==
    Bind([a \in {p_accept(toks, p, {"RIGHT_SQUARE_BRACKET"})} |->
    IF Failed(a) THEN a
    ELSE IF a.node THEN PR(a.p, values, "")
    ELSE Bind([c \in {IF Len(values) > 0 THEN p_expect(toks, a.p, {"COMMA"})
                  ELSE PR(a.p, None, "")} |->
         IF Failed(c) THEN c
         ELSE Bind([e \in {parse_expr(toks, c.p)} |->
              IF Failed(e) THEN e
              ELSE parse_list_values(toks, e.p, Append(values, e.node))])])])

parse_list_lit_expr(toks, p) ==
    Bind([tk \in {p_expect(toks, p, {"LEFT_SQUARE_BRACKET"})} |->
    IF Failed(tk) THEN tk
    ELSE Bind([v \in {parse_list_values(toks, tk.p, <<>>)} |->
         IF Failed(v) THEN v
         ELSE PR(v.p, ListLitExpr(tk.node.line, tk.node.col, v.node), "")])])

parse_dict_entries(toks, p, entries) ==
    Bind([a \in {p_accept(toks, p, {"RIGHT_BRACE"})} |->
    IF Failed(a) THEN a
    ELSE IF a.node THEN PR(a.p, entries, "")
    ELSE Bind([c \in {IF Len(entries) > 0 THEN p_expect(toks, a.p, {"COMMA"})
                  ELSE PR(a.p, None, "")} |->
         IF Failed(c) THEN c
         ELSE Bind([k \in {parse_expr(toks, c.p)} |->
              IF Failed(k) THEN k
              ELSE Bind([col \in {p_expect(toks, k.p, {"COLON"})} |->
                   IF Failed(col) THEN col
                   ELSE Bind([v \in {parse_expr(toks, col.p)} |->
                        IF Failed(v) THEN v
                        ELSE parse_dict_entries(toks, v.p,
                                                Append(entries, <<k.node, v.node>>))])])])])])

parse_dict_lit_expr(toks, p) ==
    Bind([tk \in {p_expect(toks, p, {"LEFT_BRACE"})} |->
    IF Failed(tk) THEN tk
    ELSE Bind([e \in {parse_dict_entries(toks, tk.p, <<>>)} |->
         IF Failed(e) THEN e
         ELSE PR(e.p, DictLitExpr(tk.node.line, tk.node.col, e.node), "")])])

finish_expr(toks, p, expr) ==
    Bind([la \in {p_lookahead(toks, p, {"ATTR_ACCESS", "LEFT_SQUARE_BRACKET", "LEFT_PAREN"})} |->
    IF Failed(la) THEN la
    ELSE IF ~la.node THEN PR(p, expr, "")
    ELSE Bind([kind \in {toks[p.pos + 1].kind} |->
             Bind([nxt \in {IF kind = "ATTR_ACCESS"
                    THEN parse_attr_access_or_assignment(toks, p, expr)
                    ELSE IF kind = "LEFT_SQUARE_BRACKET"
                    THEN parse_item_access_or_assignment(toks, p, expr)
                    ELSE parse_call_expr(toks, p, expr)} |->
         IF Failed(nxt) THEN nxt ELSE finish_expr(toks, nxt.p, nxt.node)])])])

parse_expr(toks, p) ==
    Bind([n \in {p_next(toks, p)} |->
    IF Failed(n) THEN n
    ELSE Bind([tok \in {n.node} |->
             Bind([q \in {n.p} |->
      CASE tok.kind = "BOOL_LIT" ->
             finish_expr(toks, q, BoolLitExpr(tok.line, tok.col, tok.val = "true"))
        [] tok.kind = "FLOAT_LIT" ->
             IF PyFloatFails(tok.val) THEN PR(q, None, "ValueError")
             ELSE finish_expr(toks, q, FloatLitExpr(tok.line, tok.col,
                                                    Val("float", PyFloat(tok.val))))
        [] tok.kind = "INT_LIT" ->
             finish_expr(toks, q, IntLitExpr(tok.line, tok.col, PyInt(tok.val)))
        [] tok.kind = "STR_LIT" ->
             \* the bare except also turns an error of _finish_expr into this one
             IF LiteralEvalFails(tok.val) THEN PR(q, None, "SyntaxError")
             ELSE Bind([f \in {finish_expr(toks, q, StrLitExpr(tok.line, tok.col,
                                         Val("str", literal_eval(tok.val))))} |->
                  IF Failed(f) THEN PR(f.p, None, "SyntaxError") ELSE f])
        [] tok.kind = "NULL_LIT" ->
             finish_expr(toks, q, NullLitExpr(tok.line, tok.col))
        [] tok.kind = "LEFT_PAREN" ->
             Bind([e \in {parse_expr(toks, q)} |->
             IF Failed(e) THEN e
             ELSE Bind([c \in {p_expect(toks, e.p, {"RIGHT_PAREN"})} |->
                  IF Failed(c) THEN c ELSE finish_expr(toks, c.p, e.node)])])
        [] tok.kind = "LEFT_SQUARE_BRACKET" ->
             Bind([b \in {p_backup(q, 1)} |->
             IF Failed(b) THEN b
             ELSE Bind([l \in {parse_list_lit_expr(toks, b.p)} |->
                  IF Failed(l) THEN l ELSE finish_expr(toks, l.p, l.node)])])
        [] tok.kind = "LEFT_BRACE" ->
             Bind([b \in {p_backup(q, 1)} |->
             IF Failed(b) THEN b
             ELSE Bind([d \in {parse_dict_lit_expr(toks, b.p)} |->
                  IF Failed(d) THEN d ELSE finish_expr(toks, d.p, d.node)])])
        [] tok.kind = "IDENTIFIER" ->
             Bind([dn \in {p_is_done(toks, q)} |->
             IF Failed(dn) THEN dn
             ELSE IF dn.node
             THEN finish_expr(toks, q, AccessExpr(tok.line, tok.col, tok.val))
             ELSE Bind([la \in {p_lookahead(toks, q, {"EQ"})} |->
                  IF Failed(la) THEN la
                  ELSE IF la.node
                  THEN Bind([b \in {p_backup(q, 1)} |->
                       IF Failed(b) THEN b
                       ELSE Bind([a \in {parse_assignment_expr(toks, b.p)} |->
                            IF Failed(a) THEN a ELSE finish_expr(toks, a.p, a.node)])])
                  ELSE finish_expr(toks, q, AccessExpr(tok.line, tok.col, tok.val))])])
        [] OTHER -> PR(q, None, "SyntaxError")])])])

parse_expr_in_stmt_context(toks, p) ==
    Bind([e \in {parse_expr(toks, p)} |->
    IF Failed(e) THEN e
    ELSE Bind([s \in {p_expect(toks, e.p, {"SEMICOLON"})} |->
         IF Failed(s) THEN s ELSE PR(s.p, e.node, "")])])

\* while self._accept(TokenKind.SEMICOLON): pass
RECURSIVE skip_semicolons(_, _)
skip_semicolons(toks, p) ==
    Bind([a \in {p_accept(toks, p, {"SEMICOLON"})} |->
    IF Failed(a) THEN a
    ELSE IF a.node THEN skip_semicolons(toks, a.p) ELSE a])

parse_var_decl_stmt(toks, p) ==
    Bind([tk \in {p_expect(toks, p, {"LET"})} |->
    IF Failed(tk) THEN tk
    ELSE Bind([id \in {p_expect(toks, tk.p, {"IDENTIFIER"})} |->
         IF Failed(id) THEN id
         ELSE Bind([e \in {p_expect(toks, id.p, {"EQ"})} |->
              IF Failed(e) THEN e
              ELSE Bind([v \in {parse_expr(toks, e.p)} |->
                   IF Failed(v) THEN v
                   ELSE Bind([s \in {p_expect(toks, v.p, {"SEMICOLON"})} |->
                        IF Failed(s) THEN s
                        ELSE PR(s.p, VarDeclStmt(tk.node.line, tk.node.col,
                                                 id.node.val, v.node), "")])])])])])

\* A break statement parsed without looking at the loop depth.
parse_break_stmt_anywhere(toks, p) ==
    Bind([tk \in {p_expect(toks, p, {"BREAK"})} |->
    IF Failed(tk) THEN tk
    ELSE Bind([s \in {p_expect(toks, tk.p, {"SEMICOLON"})} |->
         IF Failed(s) THEN s
         ELSE PR(s.p, BreakStmt(tk.node.line, tk.node.col), "")])])

parse_break_stmt(toks, p) ==
    Bind([tk \in {p_expect(toks, p, {"BREAK"})} |->
    IF Failed(tk) THEN tk
    ELSE IF tk.p.loop_depth = 0 THEN PR(tk.p, None, "SyntaxError")
    ELSE Bind([s \in {p_expect(toks, tk.p, {"SEMICOLON"})} |->
         IF Failed(s) THEN s
         ELSE PR(s.p, BreakStmt(tk.node.line, tk.node.col), "")])])

parse_continue_stmt(toks, p) ==
    Bind([tk \in {p_expect(toks, p, {"CONTINUE"})} |->
    IF Failed(tk) THEN tk
    ELSE IF tk.p.loop_depth = 0 THEN PR(tk.p, None, "SyntaxError")
    ELSE Bind([s \in {p_expect(toks, tk.p, {"SEMICOLON"})} |->
         IF Failed(s) THEN s
         ELSE PR(s.p, ContinueStmt(tk.node.line, tk.node.col), "")])])

\* A return statement parsed without asking whether a function body is being parsed.
parse_return_stmt_anywhere(toks, p) ==
    Bind([tk \in {p_expect(toks, p, {"RETURN"})} |->
    IF Failed(tk) THEN tk
    ELSE Bind([a \in {p_accept(toks, tk.p, {"SEMICOLON"})} |->
         IF Failed(a) THEN a
         ELSE IF a.node THEN PR(a.p, ReturnStmt(tk.node.line, tk.node.col, None), "")
         ELSE Bind([v \in {parse_expr(toks, a.p)} |->
              IF Failed(v) THEN v
              ELSE Bind([s \in {p_expect(toks, v.p, {"SEMICOLON"})} |->
                   IF Failed(s) THEN s
                   ELSE PR(s.p, ReturnStmt(tk.node.line, tk.node.col, v.node), "")])])])])

parse_return_stmt(toks, p) ==
    Bind([tk \in {p_expect(toks, p, {"RETURN"})} |->
    IF Failed(tk) THEN tk
    ELSE IF ~tk.p.in_fn_decl THEN PR(tk.p, None, "SyntaxError")
    ELSE Bind([a \in {p_accept(toks, tk.p, {"SEMICOLON"})} |->
         IF Failed(a) THEN a
         ELSE IF a.node THEN PR(a.p, ReturnStmt(tk.node.line, tk.node.col, None), "")
         ELSE Bind([v \in {parse_expr(toks, a.p)} |->
              IF Failed(v) THEN v
              ELSE Bind([s \in {p_expect(toks, v.p, {"SEMICOLON"})} |->
                   IF Failed(s) THEN s
                   ELSE PR(s.p, ReturnStmt(tk.node.line, tk.node.col, v.node), "")])])])])

\* while not self._accept(RIGHT_BRACE): stmts.append(self._parse_stmt())
parse_block_loop(toks, p, stmts) ==
    Bind([a \in {p_accept(toks, p, {"RIGHT_BRACE"})} |->
    IF Failed(a) THEN a
    ELSE IF a.node THEN PR(a.p, stmts, "")
    ELSE Bind([s \in {parse_stmt(toks, a.p)} |->
         IF Failed(s) THEN s ELSE parse_block_loop(toks, s.p, Append(stmts, s.node))])])

parse_block(toks, p) ==
    Bind([tk \in {p_expect(toks, p, {"LEFT_BRACE"})} |->
    IF Failed(tk) THEN tk
    ELSE Bind([b \in {parse_block_loop(toks, tk.p, <<>>)} |->
         IF Failed(b) THEN b
         ELSE PR(b.p, BlockStmt(tk.node.line, tk.node.col, b.node), "")])])

parse_if_stmt_else_branch(toks, p) ==
    Bind([a \in {p_accept(toks, p, {"ELSE"})} |->
    IF Failed(a) THEN a
    ELSE IF a.node
    THEN Bind([la \in {p_lookahead(toks, a.p, {"IF"})} |->
         IF Failed(la) THEN la
         ELSE IF la.node THEN parse_if_stmt(toks, a.p) ELSE parse_block(toks, a.p)])
    ELSE PR(a.p, None, "")])

parse_if_stmt(toks, p) ==
    Bind([tk \in {p_expect(toks, p, {"IF"})} |->
    IF Failed(tk) THEN tk
    ELSE Bind([l \in {p_expect(toks, tk.p, {"LEFT_PAREN"})} |->
         IF Failed(l) THEN l
         ELSE Bind([c \in {parse_expr(toks, l.p)} |->
              IF Failed(c) THEN c
              ELSE Bind([r \in {p_expect(toks, c.p, {"RIGHT_PAREN"})} |->
                   IF Failed(r) THEN r
                   ELSE Bind([b \in {parse_block(toks, r.p)} |->
                        IF Failed(b) THEN b
                        ELSE Bind([e \in {parse_if_stmt_else_branch(toks, b.p)} |->
                             IF Failed(e) THEN e
                             ELSE PR(e.p, IfStmt(tk.node.line, tk.node.col, c.node,
                                                 b.node, e.node), "")])])])])])])

parse_try_stmt(toks, p) ==
    Bind([tk \in {p_expect(toks, p, {"TRY"})} |->
    IF Failed(tk) THEN tk
    ELSE Bind([tb \in {parse_block(toks, tk.p)} |->
         IF Failed(tb) THEN tb
         ELSE Bind([c \in {p_expect(toks, tb.p, {"CATCH"})} |->
              IF Failed(c) THEN c
              ELSE Bind([a \in {p_accept(toks, c.p, {"LEFT_PAREN"})} |->
                   IF Failed(a) THEN a
                   ELSE Bind([id \in {IF a.node THEN p_expect(toks, a.p, {"IDENTIFIER"})
                                  ELSE PR(a.p, None, "")} |->
                        IF Failed(id) THEN id
                        ELSE Bind([rp \in {IF a.node THEN p_expect(toks, id.p, {"RIGHT_PAREN"})
                                       ELSE PR(id.p, None, "")} |->
                             IF Failed(rp) THEN rp
                             ELSE Bind([cb \in {parse_block(toks, rp.p)} |->
                                      Bind([err_var_binding_name \in {IF a.node THEN Str(id.node.val) ELSE None} |->
                                  IF Failed(cb) THEN cb
                                  ELSE PR(cb.p, TryStmt(tk.node.line, tk.node.col, tb.node,
                                                        cb.node, err_var_binding_name), "")])])])])])])])])

parse_while_loop_stmt(toks, p) ==
    Bind([tk \in {p_expect(toks, p, {"WHILE"})} |->
    IF Failed(tk) THEN tk
    ELSE Bind([l \in {p_expect(toks, tk.p, {"LEFT_PAREN"})} |->
         IF Failed(l) THEN l
         ELSE Bind([c \in {parse_expr(toks, l.p)} |->
              IF Failed(c) THEN c
              ELSE Bind([r \in {p_expect(toks, c.p, {"RIGHT_PAREN"})} |->
                   IF Failed(r) THEN r
                   ELSE Bind([b \in {parse_block(toks, [r.p EXCEPT !.loop_depth = @ + 1])} |->
                        IF Failed(b) THEN b
                        ELSE PR([b.p EXCEPT !.loop_depth = @ - 1],
                                WhileLoopStmt(tk.node.line, tk.node.col, c.node, b.node), "")])])])])])

parse_for_loop_initializer(toks, p) ==
    Bind([a \in {p_accept(toks, p, {"SEMICOLON"})} |->
    IF Failed(a) THEN a
    ELSE IF a.node THEN PR(a.p, None, "")
    ELSE Bind([la \in {p_lookahead(toks, a.p, {"LET"})} |->
         IF Failed(la) THEN la
         ELSE IF la.node THEN parse_var_decl_stmt(toks, a.p)
         ELSE parse_expr_in_stmt_context(toks, a.p)])])

parse_for_loop_cond_expr(toks, p) ==
    Bind([la \in {p_lookahead(toks, p, {"SEMICOLON"})} |->
    IF Failed(la) THEN la
    ELSE IF la.node
    THEN Bind([tk \in {p_next(toks, p)} |->
         IF Failed(tk) THEN tk
         ELSE PR(tk.p, BoolLitExpr(tk.node.line, tk.node.col, TRUE), "")])
    ELSE parse_expr_in_stmt_context(toks, p)])

parse_for_loop_post_expr(toks, p) ==
    Bind([la \in {p_lookahead(toks, p, {"RIGHT_PAREN"})} |->
    IF Failed(la) THEN la
    ELSE IF la.node THEN PR(p, None, "") ELSE parse_expr(toks, p)])

rewrite_continue_list(stmts, post_expr) ==
    IF stmts = <<>> THEN <<>>
    ELSE <<rewrite_continue_stmts(Head(stmts), post_expr)>>
         \o rewrite_continue_list(Tail(stmts), post_expr)

\* A rewriting that also descends into the bodies of nested loops.
rewrite_continue_into_loops(stmt, post_expr) ==
    CASE stmt.t = "BlockStmt" ->
           BlockStmt(stmt.line, stmt.col, rewrite_continue_list(stmt.stmts, post_expr))
      [] stmt.t = "IfStmt" ->
           IfStmt(stmt.line, stmt.col, stmt.cond,
                  rewrite_continue_stmts(stmt.if_branch, post_expr),
                  IF ~IsNone(stmt.else_branch)
                  THEN rewrite_continue_stmts(stmt.else_branch, post_expr)
                  ELSE None)
      [] stmt.t = "TryStmt" ->
           TryStmt(stmt.line, stmt.col,
                   rewrite_continue_stmts(stmt.try_block, post_expr),
                   stmt.err_var_binding_name,
                   rewrite_continue_stmts(stmt.catch_block, post_expr))
      [] stmt.t = "ContinueStmt" ->
           BlockStmt(stmt.line, stmt.col, <<post_expr, stmt>>)
      [] stmt.t \in {"WhileLoopStmt", "IteratorBasedForLoopStmt"} ->
           [stmt EXCEPT !.body_block = rewrite_continue_stmts(@, post_expr)]
      [] OTHER -> stmt

rewrite_continue_stmts(stmt, post_expr) ==
    CASE stmt.t = "BlockStmt" ->
           BlockStmt(stmt.line, stmt.col, rewrite_continue_list(stmt.stmts, post_expr))
      [] stmt.t = "IfStmt" ->
           IfStmt(stmt.line, stmt.col, stmt.cond,
                  rewrite_continue_stmts(stmt.if_branch, post_expr),
                  IF ~IsNone(stmt.else_branch)
                  THEN rewrite_continue_stmts(stmt.else_branch, post_expr)
                  ELSE None)
      [] stmt.t = "TryStmt" ->
           \* the constructor is called with (try_block, err_var_binding_name, catch_block)
           TryStmt(stmt.line, stmt.col,
                   rewrite_continue_stmts(stmt.try_block, post_expr),
                   stmt.err_var_binding_name,
                   rewrite_continue_stmts(stmt.catch_block, post_expr))
      [] stmt.t = "ContinueStmt" ->
           BlockStmt(stmt.line, stmt.col, <<post_expr, stmt>>)
      [] OTHER -> stmt

\* The lowering at the end of _parse_for_loop_stmt (lines 179-196).
lower_for_loop(tok, init_stmt, cond_expr, post_expr, loop_body) ==
    Bind([with_trailing \in {IF Len(loop_body.stmts) > 0
               /\ loop_body.stmts[Len(loop_body.stmts)].t # "ContinueStmt"
            THEN [loop_body EXCEPT !.stmts = Append(@, ContinueStmt(-1, -1))]
            ELSE loop_body} |->
        Bind([rewritten_loop_body \in {IF ~IsNone(post_expr)
            THEN rewrite_continue_stmts(with_trailing, post_expr)
            ELSE loop_body} |->
        Bind([stmts \in {(IF ~IsNone(init_stmt) THEN <<init_stmt>> ELSE <<>>)
                 \o <<WhileLoopStmt(tok.line, tok.col, cond_expr, rewritten_loop_body)>>} |->
    BlockStmt(tok.line, tok.col, stmts)])])])

parse_for_loop_stmt(toks, p, tok) ==
    Bind([i \in {parse_for_loop_initializer(toks, p)} |->
    IF Failed(i) THEN i
    ELSE Bind([c \in {parse_for_loop_cond_expr(toks, i.p)} |->
         IF Failed(c) THEN c
         ELSE Bind([po \in {parse_for_loop_post_expr(toks, c.p)} |->
              IF Failed(po) THEN po
              ELSE Bind([r \in {p_expect(toks, po.p, {"RIGHT_PAREN"})} |->
                   IF Failed(r) THEN r
                   ELSE Bind([b \in {parse_block(toks, [r.p EXCEPT !.loop_depth = @ + 1])} |->
                        IF Failed(b) THEN b
                        ELSE PR([b.p EXCEPT !.loop_depth = @ - 1],
                                lower_for_loop(tok, i.node, c.node, po.node, b.node), "")])])])])])

parse_iterator_based_for_loop_stmt(toks, p, tok) ==
    Bind([l \in {p_expect(toks, p, {"LET"})} |->
    IF Failed(l) THEN l
    ELSE Bind([id \in {p_expect(toks, l.p, {"IDENTIFIER"})} |->
         IF Failed(id) THEN id
         ELSE Bind([n \in {p_expect(toks, id.p, {"IN"})} |->
              IF Failed(n) THEN n
              ELSE Bind([e \in {parse_expr(toks, n.p)} |->
                   IF Failed(e) THEN e
                   ELSE Bind([r \in {p_expect(toks, e.p, {"RIGHT_PAREN"})} |->
                        IF Failed(r) THEN r
                        ELSE Bind([b \in {parse_block(toks, [r.p EXCEPT !.loop_depth = @ + 1])} |->
                             IF Failed(b) THEN b
                             ELSE PR([b.p EXCEPT !.loop_depth = @ - 1],
                                     IteratorBasedForLoopStmt(tok.line, tok.col, id.node.val,
                                                              e.node, b.node), "")])])])])])])

parse_for_loop(toks, p) ==
    Bind([f \in {p_expect(toks, p, {"FOR"})} |->
    IF Failed(f) THEN f
    ELSE Bind([tk \in {p_expect(toks, f.p, {"LEFT_PAREN"})} |->
         IF Failed(tk) THEN tk
         ELSE Bind([mark \in {tk.p.pos} |->
                  Bind([a1 \in {p_accept(toks, tk.p, {"LET"})} |->
                  Bind([a2 \in {IF ~Failed(a1) /\ a1.node
                        THEN p_accept(toks, a1.p, {"IDENTIFIER"}) ELSE a1} |->
                  Bind([a3 \in {IF ~Failed(a2) /\ a2.node
                        THEN p_accept(toks, a2.p, {"IN"}) ELSE a2} |->
              IF Failed(a3) THEN a3
              ELSE IF a3.node
              THEN parse_iterator_based_for_loop_stmt(toks, [a3.p EXCEPT !.pos = mark],
                                                      tk.node)
              ELSE parse_for_loop_stmt(toks, [a3.p EXCEPT !.pos = mark], tk.node)])])])])])])

parse_stmt(toks, p) ==
    Bind([sk \in {skip_semicolons(toks, p)} |->
    IF Failed(sk) THEN sk
    ELSE Bind([pk \in {p_peek(toks, sk.p)} |->
         IF Failed(pk) THEN pk
         ELSE Bind([kind \in {pk.node.kind} |->
                  Bind([q \in {pk.p} |->
           CASE kind = "FOR" -> parse_for_loop(toks, q)
             [] kind = "IF" -> parse_if_stmt(toks, q)
             [] kind = "LET" -> parse_var_decl_stmt(toks, q)
             [] kind = "TRY" -> parse_try_stmt(toks, q)
             [] kind = "WHILE" -> parse_while_loop_stmt(toks, q)
             [] kind = "BREAK" -> parse_break_stmt(toks, q)
             [] kind = "CONTINUE" -> parse_continue_stmt(toks, q)
             [] kind = "RETURN" -> parse_return_stmt(toks, q)
             [] OTHER -> parse_expr_in_stmt_context(toks, q)])])])])

\* while not self._accept(RIGHT_PAREN): [expect COMMA]; param_names.append(...)
RECURSIVE parse_param_names(_, _, _)
parse_param_names(toks, p, param_names) ==
    Bind([a \in {p_accept(toks, p, {"RIGHT_PAREN"})} |->
    IF Failed(a) THEN a
    ELSE IF a.node THEN PR(a.p, param_names, "")
    ELSE Bind([c \in {IF Len(param_names) > 0 THEN p_expect(toks, a.p, {"COMMA"})
                  ELSE PR(a.p, None, "")} |->
         IF Failed(c) THEN c
         ELSE Bind([id \in {p_expect(toks, c.p, {"IDENTIFIER"})} |->
              IF Failed(id) THEN id
              ELSE parse_param_names(toks, id.p, Append(param_names, id.node.val))])])])

parse_fn_definition(toks, p) ==
    Bind([tk \in {p_expect(toks, p, {"FN"})} |->
    IF Failed(tk) THEN tk
    ELSE Bind([id \in {p_expect(toks, tk.p, {"IDENTIFIER"})} |->
         IF Failed(id) THEN id
         ELSE Bind([l \in {p_expect(toks, id.p, {"LEFT_PAREN"})} |->
              IF Failed(l) THEN l
              ELSE Bind([ps \in {parse_param_names(toks, l.p, <<>>)} |->
                   IF Failed(ps) THEN ps
                   ELSE Bind([b \in {parse_block(toks, [ps.p EXCEPT !.in_fn_decl = TRUE])} |->
                        IF Failed(b) THEN b
                        ELSE PR([b.p EXCEPT !.in_fn_decl = FALSE],
                                FnDefinition(tk.node.line, tk.node.col, id.node.val,
                                             ps.node, b.node), "")])])])])])

\* The loop of parse: while not self._is_done(): append a definition or a statement.
RECURSIVE parse_top_level(_, _, _)
parse_top_level(toks, p, top_level_nodes) ==
    Bind([dn \in {p_is_done(toks, p)} |->
    IF Failed(dn) THEN dn
    ELSE IF dn.node THEN PR(p, top_level_nodes, "")
    ELSE Bind([la \in {p_lookahead(toks, p, {"FN"})} |->
         IF Failed(la) THEN la
         ELSE Bind([n \in {IF la.node THEN parse_fn_definition(toks, p)
                       ELSE parse_stmt(toks, p)} |->
              IF Failed(n) THEN n
              ELSE parse_top_level(toks, n.p, Append(top_level_nodes, n.node))])])])

\* _reset that rewinds the cursor and keeps the context flags.
p_reset_pos_only(p) == [p EXCEPT !.pos = 0]

p_reset(p) == [pos |-> 0, loop_depth |-> 0, in_fn_decl |-> FALSE]

\* Parser.parse: node is AstRoot.top_level_nodes.
parse(toks, p) == parse_top_level(toks, p_reset(p), <<>>)

NewParser == [pos |-> 0, loop_depth |-> 0, in_fn_decl |-> FALSE]

(***************************************************************************)
(* Runtime (runtime/interpreter.py).  The record s holds the RuntimeEnv in *)
(* use (stack, offsets, decls: _stack, _stack_offsets,                     *)
(* _decl_variables_in_scope), the Var objects (heap: a stack holds         *)
(* references to them, so the copies of a stack share them) and the        *)
(* closures compiled so far (fns).  out is what print has written.  The    *)
(* other fields are history: log records the steps of the evaluation,      *)
(* frame names the activation running (0: the top level) and fuel is the   *)
(* remaining budget of loop iterations and calls.  An evaluation yields    *)
(* (s, sig, val, err): sig is "ok" or the exception raised, val the value  *)
(* (or the value a Return carries), err the message of an error.           *)
(***************************************************************************)
Var(name, val) == [name |-> name, val |-> val]

RR(s, sig, val, err) == [s |-> s, sig |-> sig, val |-> val, err |-> err]

Ok(s, val) == RR(s, "ok", val, "")

Raise(s, sig, err) == RR(s, sig, NullVal, err)

IsOk(r) == r.sig = "ok"

\* Sentinel and its subclasses (runtime/errors.py).
Sentinels == {"Break", "Continue", "Return"}

Event(ev, col, x) == [ev |-> ev, col |-> col, x |-> x]

Log(s, ev, col, x) == [s EXCEPT !.log = Append(@, Event(ev, col, x))]

\* What an environment holds: the bindings in order, the offsets, the declared sets.
EnvView(s) ==
    [stack |-> [i \in 1..Len(s.stack) |-> s.heap[s.stack[i]]],
     offsets |-> s.offsets,
     decls |-> s.decls]

Depths(s) == [stack |-> Len(s.stack), offsets |-> Len(s.offsets), decls |-> Len(s.decls)]

enter_scope(s) ==
    Bind([s1 \in {[s EXCEPT !.offsets = Append(@, Len(s.stack)),
                        !.decls = Append(@, {})]} |->
    Log(s1, "enter", -1, [frame |-> s.frame, depth |-> Len(s1.offsets),
                          before |-> Depths(s), view |-> EnvView(s)])])

\* An exit that drops the offset and the declared names but truncates nothing: the
\* bindings of the scope stay on the stack.
exit_scope_keep(s) ==
    Bind([s1 \in {[s EXCEPT !.offsets = SubSeq(@, 1, Len(@) - 1),
                            !.decls = SubSeq(@, 1, Len(@) - 1)]} |->
    Log(s1, "exit", -1, [frame |-> s.frame, depth |-> Len(s.offsets),
                         after |-> Depths(s1), view |-> EnvView(s1)])])

\* An exit that truncates the stack and drops the offset but leaves the declared names
\* of the scope on their stack.
exit_scope_names_stay(s) ==
    Bind([offset \in {s.offsets[Len(s.offsets)]} |->
        Bind([s1 \in {[s EXCEPT !.offsets = SubSeq(@, 1, Len(@) - 1),
                        !.stack = SubSeq(@, 1, offset)]} |->
    Log(s1, "exit", -1, [frame |-> s.frame, depth |-> Len(s.offsets),
                         after |-> Depths(s1), view |-> EnvView(s1)])])])

\* The finally clause of enter_scope.
exit_scope(s) ==
    Bind([offset \in {s.offsets[Len(s.offsets)]} |->
        Bind([s1 \in {[s EXCEPT !.offsets = SubSeq(@, 1, Len(@) - 1),
                        !.stack = SubSeq(@, 1, offset),
                        !.decls = SubSeq(@, 1, Len(@) - 1)]} |->
    Log(s1, "exit", -1, [frame |-> s.frame, depth |-> Len(s.offsets),
                         after |-> Depths(s1), view |-> EnvView(s1)])])])

\* Indexes into the stack of the bindings called name.
Matching(s, name) == {i \in 1..Len(s.stack) : s.heap[s.stack[i]].name = name}

Max(S) == CHOOSE x \in S : \A y \in S : y <= x

lookup(s, name) ==
    IF Matching(s, name) = {}
    THEN Raise(Log(s, "lookup", -1, [name |-> name, frame |-> s.frame, sig |-> "RuntimeError",
                                     val |-> NullVal, cell |-> 0, view |-> EnvView(s)]),
               "RuntimeError", "undefined variable")
    ELSE Bind([cell \in {s.stack[Max(Matching(s, name))]} |->
         Ok(Log(s, "lookup", -1, [name |-> name, frame |-> s.frame, sig |-> "ok",
                                  val |-> s.heap[cell].val, cell |-> cell,
                                  view |-> EnvView(s)]),
            s.heap[cell].val)])

\* An assignment that stops at the innermost binding called name.
assign_innermost(s, name, val) ==
    Bind([cells \in {IF Matching(s, name) = {} THEN {}
                     ELSE {s.stack[Max(Matching(s, name))]}} |->
        Bind([s1 \in {[s EXCEPT !.heap = [c \in DOMAIN @ |->
                                    IF c \in cells THEN Var(@[c].name, val) ELSE @[c]]]} |->
        (LET ev(sig, t) == [name |-> name, val |-> val, frame |-> s.frame, sig |-> sig,
                       pre |-> EnvView(s), post |-> EnvView(t)] IN
    IF cells = {}
    THEN Raise(Log(s, "assign", -1, ev("RuntimeError", s)),
               "RuntimeError", "cannot assign to undeclared variable")
    ELSE Ok(Log(s1, "assign", -1, ev("ok", s1)), NullVal))])])

\* An assignment that creates the binding when no binding is called name.
assign_or_create(s, name, val) ==
    Bind([cells \in {{s.stack[i] : i \in Matching(s, name)}} |->
        Bind([s1 \in {IF cells = {}
                      THEN [s EXCEPT !.heap = Append(@, Var(name, val)),
                                     !.stack = Append(@, Len(s.heap) + 1)]
                      ELSE [s EXCEPT !.heap = [c \in DOMAIN @ |->
                                    IF c \in cells THEN Var(@[c].name, val) ELSE @[c]]]} |->
    Ok(Log(s1, "assign", -1, [name |-> name, val |-> val, frame |-> s.frame, sig |-> "ok",
                              pre |-> EnvView(s), post |-> EnvView(s1)]), NullVal)])])

assign(s, name, val) ==
    Bind([cells \in {{s.stack[i] : i \in Matching(s, name)}} |->
        Bind([s1 \in {[s EXCEPT !.heap = [c \in DOMAIN @ |->
                                    IF c \in cells THEN Var(@[c].name, val) ELSE @[c]]]} |->
        (LET ev(sig, t) == [name |-> name, val |-> val, frame |-> s.frame, sig |-> sig,
                       pre |-> EnvView(s), post |-> EnvView(t)] IN
    IF cells = {}
    THEN Raise(Log(s, "assign", -1, ev("RuntimeError", s)),
               "RuntimeError", "cannot assign to undeclared variable")
    ELSE Ok(Log(s1, "assign", -1, ev("ok", s1)), NullVal))])])

push(s, name, val) ==
    [s EXCEPT !.heap = Append(@, Var(name, val)),
              !.stack = Append(@, Len(s.heap) + 1)]

\* A declaration that does not look at the names the scope has declared.
declare_unchecked(s, name, val) ==
    Bind([s1 \in {push([s EXCEPT !.decls[Len(s.decls)] = @ \cup {name}], name, val)} |->
    Ok(Log(s1, "declare", -1, [name |-> name, val |-> val, frame |-> s.frame, sig |-> "ok",
                               pre |-> EnvView(s), post |-> EnvView(s1)]), NullVal)])

declare(s, name, val) ==
    Bind([s1 \in {push([s EXCEPT !.decls[Len(s.decls)] = @ \cup {name}], name, val)} |->
        (LET ev(sig, t) == [name |-> name, val |-> val, frame |-> s.frame, sig |-> sig,
                       pre |-> EnvView(s), post |-> EnvView(t)] IN
    IF name \in s.decls[Len(s.decls)]
    THEN Raise(Log(s, "declare", -1, ev("RuntimeError", s)),
               "RuntimeError", "cannot redeclare variable in same scope")
    ELSE Ok(Log(s1, "declare", -1, ev("ok", s1)), NullVal))])

has(s, name) == Matching(s, name) # {}

\* RuntimeEnv.copy: new lists holding the same Var objects.
copy(s) == [stack |-> s.stack, offsets |-> s.offsets, decls |-> s.decls]

WithEnv(s, env) ==
    [s EXCEPT !.stack = env.stack, !.offsets = env.offsets, !.decls = env.decls]

\* fn_prototype = object()
fn_prototype == Val("prototype", 0)

(***************************************************************************)
(* Built-in functions (runtime/builtins.py): the ones programs here call.  *)
(***************************************************************************)
BUILT_IN_FNS == <<"print", "lt", "eq", "add", "or", "and", "range">>

\* A collection an embedder passes to evaluate as built_in_fns: the default one and
\* a function boom of its own that raises InternalError("boom").
EmbedderFns == BUILT_IN_FNS \o <<"boom">>

BuiltinVal(i) == Val("builtin", i)

IsNumber(v) == v.k \in {"int", "bool"}

\* bool(v); a range is the sequence of its items, falsy when empty.
Truthy(v) ==
    CASE v.k \in {"int", "bool", "float"} -> v.n # 0
      [] v.k = "range" -> v.n # <<>>
      [] v.k = "null" -> FALSE
      [] v.k = "str" -> v.n # ""
      [] OTHER -> TRUE

\* The items of range(start, stop, step), step # 0.
RECURSIVE range_items(_, _, _)
range_items(start, stop, step) ==
    IF (step > 0 /\ start >= stop) \/ (step < 0 /\ start <= stop) THEN <<>>
    ELSE <<start>> \o range_items(start + step, stop, step)

\* range(*args): one to three integers; step 0 is a ValueError.
range(s, args) ==
    IF Len(args) \notin 1..3 \/ \E i \in DOMAIN args : ~IsNumber(args[i])
    THEN Raise(s, "HostError", "TypeError")
    ELSE IF Len(args) = 1 THEN Ok(s, Val("range", range_items(0, args[1].n, 1)))
    ELSE IF Len(args) = 2 THEN Ok(s, Val("range", range_items(args[1].n, args[2].n, 1)))
    ELSE IF args[3].n = 0 THEN Raise(s, "HostError", "ValueError")
    ELSE Ok(s, Val("range", range_items(args[1].n, args[2].n, args[3].n)))

\* next(filter(bool, args), default): default is evaluated by the caller.
RECURSIVE first_truthy(_, _)
first_truthy(args, default) ==
    IF args = <<>> THEN default
    ELSE IF Truthy(Head(args)) THEN Head(args)
    ELSE first_truthy(Tail(args), default)

\* next((arg for arg in args if not arg), default)
RECURSIVE first_falsy(_, _)
first_falsy(args, default) ==
    IF args = <<>> THEN default
    ELSE IF ~Truthy(Head(args)) THEN Head(args)
    ELSE first_falsy(Tail(args), default)

\* _logical_or(arg0, *args): all is what the call passes, arg0 first.  args[-1] is
\* evaluated before next is called, and raises IndexError on an empty tuple.
logical_or(s, all) ==
    IF all = <<>> THEN Raise(s, "HostError", "TypeError")
    ELSE IF Truthy(Head(all)) THEN Ok(s, Head(all))
    ELSE IF Tail(all) = <<>> THEN Raise(s, "HostError", "IndexError")
    ELSE Ok(s, first_truthy(Tail(all), all[Len(all)]))

\* _logical_and(arg0, *args)
logical_and(s, all) ==
    IF all = <<>> THEN Raise(s, "HostError", "TypeError")
    ELSE IF ~Truthy(Head(all)) THEN Ok(s, Head(all))
    ELSE IF Tail(all) = <<>> THEN Raise(s, "HostError", "IndexError")
    ELSE Ok(s, first_falsy(Tail(all), all[Len(all)]))

\* fn(*args) for a built-in of the collection passed to evaluate: a host exception
\* is sig "HostError".
call_builtin(s, i, args) ==
    Bind([name \in {built_in_fns[i]} |->
    CASE name = "boom" -> Raise(Log(s, "internal_error", 0, [frame |-> s.frame]),
                                "InternalError", "boom")
      [] name = "print" -> Ok([s EXCEPT !.out = Append(@, args)], NullVal)
      [] name = "lt" ->
           IF Len(args) = 2 /\ IsNumber(args[1]) /\ IsNumber(args[2])
           THEN Ok(s, BoolVal(args[1].n < args[2].n))
           ELSE Raise(s, "HostError", "TypeError")
      [] name = "eq" ->
           IF Len(args) # 2 THEN Raise(s, "HostError", "TypeError")
           ELSE IF IsNumber(args[1]) /\ IsNumber(args[2])
           THEN Ok(s, BoolVal(args[1].n = args[2].n))
           ELSE Ok(s, BoolVal(args[1].k = args[2].k /\ args[1].n = args[2].n))
      [] name = "add" ->
           IF Len(args) = 2 /\ IsNumber(args[1]) /\ IsNumber(args[2])
           THEN Ok(s, IntVal(args[1].n + args[2].n))
           ELSE Raise(s, "HostError", "TypeError")
      [] name = "or" -> logical_or(s, args)
      [] name = "and" -> logical_and(s, args)
      [] name = "range" -> range(s, args)])

RECURSIVE visit_stmt(_, _)
RECURSIVE visit_block_stmt(_, _)
RECURSIVE visit_stmts(_, _)
RECURSIVE visit_if_stmt(_, _)
RECURSIVE visit_while_loop_stmt(_, _)
RECURSIVE visit_try_stmt(_, _)
RECURSIVE visit_iterator_based_for_loop_stmt(_, _)
RECURSIVE for_each_item(_, _, _)
RECURSIVE visit_var_decl_stmt(_, _)
RECURSIVE visit_return_stmt(_, _)
RECURSIVE evaluate_expr(_, _)
RECURSIVE evaluate_exprs(_, _, _)
RECURSIVE evaluate_call_expr(_, _)
RECURSIVE evaluate_assignment_expr(_, _)
RECURSIVE compiled(_, _, _)
RECURSIVE declare_params(_, _, _)

\* for stmt in block.stmts: self._visit_stmt(stmt, env)
visit_stmts(stmts, s) ==
    IF stmts = <<>> THEN Ok(s, NullVal)
    ELSE Bind([r \in {visit_stmt(Head(stmts), s)} |->
         IF IsOk(r) THEN visit_stmts(Tail(stmts), r.s) ELSE r])

\* block.stmts raises AttributeError when block is not a BlockStmt.
visit_block_stmt(block, s) ==
    IF block.t # "BlockStmt"
    THEN Raise(s, "HostError", "AttributeError")
    ELSE visit_stmts(block.stmts, Log(s, "block", block.col, [frame |-> s.frame]))

visit_var_decl_stmt(decl, s) ==
    Bind([v \in {evaluate_expr(decl.val, s)} |->
    IF ~IsOk(v) THEN v ELSE declare(v.s, decl.var_name, v.val)])

\* An if statement whose scope is a with block that has no finally clause: the scope
\* is exited only when the branch ends normally.
visit_if_stmt_no_finally(if_stmt, s) ==
    Bind([c \in {evaluate_expr(if_stmt.cond, s)} |->
    IF ~IsOk(c) THEN c
    ELSE Bind([s1 \in {enter_scope(c.s)} |->
             Bind([r \in {IF Truthy(c.val) THEN visit_block_stmt(if_stmt.if_branch, s1)
                  ELSE IF ~IsNone(if_stmt.else_branch)
                  THEN visit_block_stmt(if_stmt.else_branch, s1)
                  ELSE Ok(s1, NullVal)} |->
         IF IsOk(r) THEN [r EXCEPT !.s = exit_scope(r.s)] ELSE r])])])

visit_if_stmt(if_stmt, s) ==
    Bind([c \in {evaluate_expr(if_stmt.cond, s)} |->
    IF ~IsOk(c) THEN c
    ELSE Bind([s1 \in {enter_scope(c.s)} |->
             Bind([r \in {IF Truthy(c.val) THEN visit_block_stmt(if_stmt.if_branch, s1)
                  ELSE IF ~IsNone(if_stmt.else_branch)
                  THEN visit_block_stmt(if_stmt.else_branch, s1)
                  ELSE Ok(s1, NullVal)} |->
         [r EXCEPT !.s = exit_scope(r.s)]])])])

visit_while_loop_stmt(loop, s) ==
    Bind([c \in {evaluate_expr(loop.cond, s)} |->
    IF ~IsOk(c) THEN c
    ELSE Bind([s0 \in {Log(c.s, "cond", loop.col, [val |-> c.val, frame |-> s.frame])} |->
         IF ~Truthy(c.val) THEN Ok(s0, NullVal)
         ELSE IF s0.fuel = 0 THEN Raise(s0, "OutOfFuel", "")
         ELSE Bind([s1 \in {enter_scope([s0 EXCEPT !.fuel = @ - 1])} |->
                  Bind([b \in {visit_block_stmt(loop.body_block, s1)} |->
                  Bind([r \in {[b EXCEPT !.s = Log(exit_scope(b.s), "iterated", loop.col,
                                           [sig |-> b.sig, frame |-> s.frame])]} |->
              CASE r.sig = "Break" -> Ok(r.s, NullVal)
                [] r.sig \in {"Continue", "ok"} -> visit_while_loop_stmt(loop, r.s)
                [] OTHER -> r])])])])])

visit_return_stmt(return_stmt, s) ==
    IF ~IsNone(return_stmt.return_val)
    THEN Bind([v \in {evaluate_expr(return_stmt.return_val, s)} |->
         IF ~IsOk(v) THEN v ELSE RR(v.s, "Return", v.val, "")])
    ELSE RR(s, "Return", NullVal, "")

\* The name a catch binds: a str as parsed, any other object after the lowering.
BindingName(x) == IF x.t = "str" THEN x.s ELSE "<node>"

\* if try_stmt.err_var_binding_name:
BindingTruthy(x) == IF x.t = "None" THEN FALSE ELSE IF x.t = "str" THEN x.s # "" ELSE TRUE

\* A try statement whose except clause has no clause for Sentinel before it: a
\* break, continue or return of the try body is caught like an error.
visit_try_stmt_catch_all(try_stmt, s) ==
    Bind([s1 \in {enter_scope(s)} |->
        Bind([b \in {visit_block_stmt(try_stmt.try_block, s1)} |->
        Bind([r \in {[b EXCEPT !.s = exit_scope(b.s)]} |->
        (LET done(res, caught) ==
            [res EXCEPT !.s = Log(@, "try_done", try_stmt.col,
                [frame |-> s.frame, start |-> Len(s.log), body_sig |-> b.sig,
                 body_val |-> b.val, caught |-> caught, sig |-> res.sig, val |-> res.val,
                 before |-> Depths(s), after_try |-> Depths(r.s),
                 after |-> Depths(res.s)])] IN
    IF r.sig \in {"ok", "InternalError", "OutOfFuel"} THEN done(r, FALSE)
    ELSE Bind([bound \in {BindingTruthy(try_stmt.err_var_binding_name)} |->
             Bind([name \in {BindingName(try_stmt.err_var_binding_name)} |->
             Bind([s2 \in {enter_scope(r.s)} |->
             Bind([s3 \in {IF bound THEN push(s2, name, Val("error", 0)) ELSE s2} |->
             Bind([s4 \in {Log(s3, "catch", try_stmt.col,
                       [frame |-> s.frame, sig |-> r.sig, err |-> r.err, bound |-> bound,
                        name |-> name, depths |-> Depths(s2), view |-> EnvView(s3),
                        block_t |-> try_stmt.catch_block.t])} |->
             Bind([c \in {visit_block_stmt(try_stmt.catch_block, s4)} |->
         done([c EXCEPT !.s = exit_scope(c.s)], TRUE)])])])])])]))])])])

visit_try_stmt(try_stmt, s) ==
    Bind([s1 \in {enter_scope(s)} |->
        Bind([b \in {visit_block_stmt(try_stmt.try_block, s1)} |->
        Bind([r \in {[b EXCEPT !.s = exit_scope(b.s)]} |->
        (LET done(res, caught) ==
            [res EXCEPT !.s = Log(@, "try_done", try_stmt.col,
                [frame |-> s.frame, start |-> Len(s.log), body_sig |-> b.sig,
                 body_val |-> b.val, caught |-> caught, sig |-> res.sig, val |-> res.val,
                 before |-> Depths(s), after_try |-> Depths(r.s),
                 after |-> Depths(res.s)])] IN
    IF r.sig \in {"ok", "InternalError", "OutOfFuel"} \cup Sentinels THEN done(r, FALSE)
    ELSE Bind([bound \in {BindingTruthy(try_stmt.err_var_binding_name)} |->
             Bind([name \in {BindingName(try_stmt.err_var_binding_name)} |->
             Bind([s2 \in {enter_scope(r.s)} |->
             Bind([s3 \in {IF bound THEN push(s2, name, Val("error", 0)) ELSE s2} |->
             Bind([s4 \in {Log(s3, "catch", try_stmt.col,
                       [frame |-> s.frame, sig |-> r.sig, err |-> r.err, bound |-> bound,
                        name |-> name, depths |-> Depths(s2), view |-> EnvView(s3),
                        block_t |-> try_stmt.catch_block.t])} |->
             Bind([c \in {visit_block_stmt(try_stmt.catch_block, s4)} |->
         done([c EXCEPT !.s = exit_scope(c.s)], TRUE)])])])])])]))])])])

\* The characters of the strings that literal_eval yields.
Chars(str) ==
    CASE str = "" -> <<>>
      [] str = "a" -> <<"a">>
      [] str = "hello" -> <<"h", "e", "l", "l", "o">>
      [] str = "caught" -> <<"c", "a", "u", "g", "h", "t">>

\* iter(iterable) for the values of this model: the items of a range, the characters
\* of a str; any other value raises TypeError (ok is then FALSE).
iter(iterable) ==
    CASE iterable.k = "range" ->
           [ok |-> TRUE, items |-> [i \in DOMAIN iterable.n |-> IntVal(iterable.n[i])]]
      [] iterable.k = "str" ->
           [ok |-> TRUE,
            items |-> [i \in DOMAIN Chars(iterable.n) |-> Val("str", Chars(iterable.n)[i])]]
      [] OTHER -> [ok |-> FALSE, items |-> <<>>]

\* A loop over the items that a continue in the body ends, as a break does.
for_each_item_continue_ends(loop, it, s) ==
    Bind([s0 \in {Log(s, "cond", loop.col, [val |-> BoolVal(it # <<>>), frame |-> s.frame])} |->
    IF it = <<>> THEN Ok(s0, NullVal)
    ELSE Bind([s1 \in {push(enter_scope(s0), loop.iterator_var_binding_name, Head(it))} |->
             Bind([b \in {visit_block_stmt(loop.body_block,
                              Log(s1, "bind", loop.col,
                                  [name |-> loop.iterator_var_binding_name,
                                   val |-> Head(it), frame |-> s.frame,
                                   view |-> EnvView(s1)]))} |->
             Bind([r \in {[b EXCEPT !.s = Log(exit_scope(b.s), "iterated", loop.col,
                                      [sig |-> b.sig, frame |-> s.frame])]} |->
         CASE r.sig \in {"Break", "Continue"} -> Ok(r.s, NullVal)
           [] r.sig = "ok" -> for_each_item(loop, Tail(it), r.s)
           [] OTHER -> r])])])])

\* for item in it: the body in a scope of its own that holds the iterator variable.
\* Asking the iterator for its next item is logged as the loop's cond.
for_each_item(loop, it, s) ==
    Bind([s0 \in {Log(s, "cond", loop.col, [val |-> BoolVal(it # <<>>), frame |-> s.frame])} |->
    IF it = <<>> THEN Ok(s0, NullVal)
    ELSE Bind([s1 \in {push(enter_scope(s0), loop.iterator_var_binding_name, Head(it))} |->
             Bind([b \in {visit_block_stmt(loop.body_block,
                              Log(s1, "bind", loop.col,
                                  [name |-> loop.iterator_var_binding_name,
                                   val |-> Head(it), frame |-> s.frame,
                                   view |-> EnvView(s1)]))} |->
             Bind([r \in {[b EXCEPT !.s = Log(exit_scope(b.s), "iterated", loop.col,
                                      [sig |-> b.sig, frame |-> s.frame])]} |->
         CASE r.sig = "Break" -> Ok(r.s, NullVal)
           [] r.sig \in {"Continue", "ok"} -> for_each_item(loop, Tail(it), r.s)
           [] OTHER -> r])])])])

visit_iterator_based_for_loop_stmt(loop, s) ==
    Bind([iterable \in {evaluate_expr(loop.expr, s)} |->
    IF ~IsOk(iterable) THEN iterable
    ELSE Bind([it \in {iter(iterable.val)} |->
         IF ~it.ok
         THEN Raise(iterable.s, "RuntimeError", "cannot iterate over value of type")
         ELSE for_each_item(loop, it.items, iterable.s)])])

visit_stmt(stmt, s0) ==
    Bind([s \in {Log(s0, "stmt", stmt.col, [t |-> stmt.t, frame |-> s0.frame])} |->
    CASE stmt.t = "BlockStmt" ->
           Bind([r \in {visit_block_stmt(stmt, enter_scope(s))} |->
           [r EXCEPT !.s = exit_scope(r.s)]])
      [] stmt.t = "VarDeclStmt" -> visit_var_decl_stmt(stmt, s)
      [] stmt.t = "IfStmt" -> visit_if_stmt(stmt, s)
      [] stmt.t = "ReturnStmt" -> visit_return_stmt(stmt, s)
      [] stmt.t = "WhileLoopStmt" -> visit_while_loop_stmt(stmt, s)
      [] stmt.t = "IteratorBasedForLoopStmt" -> visit_iterator_based_for_loop_stmt(stmt, s)
      [] stmt.t = "BreakStmt" -> Raise(s, "Break", "")
      [] stmt.t = "ContinueStmt" -> Raise(s, "Continue", "")
      [] stmt.t = "TryStmt" -> visit_try_stmt(stmt, s)
      [] stmt.t \in ExprTypes -> evaluate_expr(stmt, s)
      [] OTHER -> Raise(s, "InternalError", "unhandled statement node type")])

\* [self._evaluate_expr(expr, env) for expr in exprs]; val is the list of values.
evaluate_exprs(exprs, s, vals) ==
    IF exprs = <<>> THEN Ok(s, vals)
    ELSE Bind([r \in {evaluate_expr(Head(exprs), s)} |->
         IF ~IsOk(r) THEN r ELSE evaluate_exprs(Tail(exprs), r.s, Append(vals, r.val))])

evaluate_assignment_expr(assign_expr, s) ==
    Bind([v \in {evaluate_expr(assign_expr.val, s)} |->
    IF ~IsOk(v) THEN v
    ELSE Bind([a \in {assign(v.s, assign_expr.name, v.val)} |->
         IF ~IsOk(a) THEN a
         ELSE Bind([r \in {Ok(a.s, v.val)} |->
              [r EXCEPT !.s = Log(@, "assigned", assign_expr.col,
                                  [name |-> assign_expr.name, rhs |-> v.val,
                                   result |-> r.val, frame |-> s.frame])]])])])

declare_params(s, param_names, args) ==
    IF param_names = <<>> THEN Ok(s, NullVal)
    ELSE Bind([d \in {declare(s, Head(param_names), Head(args))} |->
         IF ~IsOk(d) THEN d ELSE declare_params(d.s, Tail(param_names), Tail(args))])

\* A closure that runs on the environment of its caller in place of a copy of the
\* captured one.
compiled_on_caller_env(fn, args, s) ==
    Bind([caller \in {copy(s)} |->
        Bind([decl \in {s.fns[fn].decl} |->
        Bind([call_env \in {[s EXCEPT !.frame = s.nframes + 1, !.nframes = @ + 1]} |->
        (LET back(r) == [r EXCEPT !.s = [WithEnv(r.s, caller) EXCEPT !.frame = s.frame]] IN
    IF Len(decl.param_names) # Len(args)
    THEN Raise(s, "RuntimeError", "call: want, got args")
    ELSE Bind([s1 \in {enter_scope(call_env)} |->
             Bind([d \in {declare_params(s1, decl.param_names, args)} |->
             Bind([b \in {IF ~IsOk(d) THEN d
                  ELSE visit_block_stmt(decl.body_block,
                                        Log(d.s, "body", decl.col,
                                            [fn |-> fn, name |-> decl.name,
                                             frame |-> d.s.frame]))} |->
             Bind([r \in {[b EXCEPT !.s = exit_scope(b.s)]} |->
         IF r.sig = "Return" THEN back(Ok(r.s, r.val)) ELSE back(r)])])])]))])])])

\* A closure whose environment also holds the bindings the caller's stack has gained
\* above the captured ones, as if the closure held the definer's live environment.
compiled_on_live_env(fn, args, s) ==
    Bind([caller \in {copy(s)} |->
        Bind([decl \in {s.fns[fn].decl} |->
        Bind([live \in {[s.fns[fn].captured_env EXCEPT
                            !.stack = @ \o SubSeq(s.stack, Len(@) + 1, Len(s.stack))]} |->
        Bind([call_env \in {[WithEnv(s, live)
                        EXCEPT !.frame = s.nframes + 1, !.nframes = @ + 1]} |->
        (LET back(r) == [r EXCEPT !.s = [WithEnv(r.s, caller) EXCEPT !.frame = s.frame]] IN
    IF Len(decl.param_names) # Len(args)
    THEN Raise(s, "RuntimeError", "call: want, got args")
    ELSE Bind([s1 \in {enter_scope(call_env)} |->
             Bind([d \in {declare_params(s1, decl.param_names, args)} |->
             Bind([b \in {IF ~IsOk(d) THEN d
                  ELSE visit_block_stmt(decl.body_block,
                                        Log(d.s, "body", decl.col,
                                            [fn |-> fn, name |-> decl.name,
                                             frame |-> d.s.frame]))} |->
             Bind([r \in {[b EXCEPT !.s = exit_scope(b.s)]} |->
         IF r.sig = "Return" THEN back(Ok(r.s, r.val)) ELSE back(r)])])])]))])])])])

\* A closure that compares the numbers of arguments and parameters only after it has
\* entered the scope of the call, and raises with that scope open.
compiled_checks_in_scope(fn, args, s) ==
    Bind([caller \in {copy(s)} |->
        Bind([decl \in {s.fns[fn].decl} |->
        Bind([call_env \in {[WithEnv(s, s.fns[fn].captured_env)
                        EXCEPT !.frame = s.nframes + 1, !.nframes = @ + 1]} |->
        (LET back(r) == [r EXCEPT !.s = [WithEnv(r.s, caller) EXCEPT !.frame = s.frame]] IN
    Bind([s1 \in {enter_scope(call_env)} |->
    IF Len(decl.param_names) # Len(args)
    THEN back(Raise(s1, "RuntimeError", "call: want, got args"))
    ELSE Bind([d \in {declare_params(s1, decl.param_names, args)} |->
         Bind([b \in {IF ~IsOk(d) THEN d
              ELSE visit_block_stmt(decl.body_block,
                                    Log(d.s, "body", decl.col,
                                        [fn |-> fn, name |-> decl.name,
                                         frame |-> d.s.frame]))} |->
         Bind([r \in {[b EXCEPT !.s = exit_scope(b.s)]} |->
         IF r.sig = "Return" THEN back(Ok(r.s, r.val)) ELSE back(r)])])])]))])])])

\* The closure _compile_fn returns, called with args.  s holds the caller's
\* environment, which the call cannot name: it runs on a copy of the captured one.
compiled(fn, args, s) ==
    Bind([caller \in {copy(s)} |->
        Bind([decl \in {s.fns[fn].decl} |->
        Bind([call_env \in {[WithEnv(s, s.fns[fn].captured_env)
                        EXCEPT !.frame = s.nframes + 1, !.nframes = @ + 1]} |->
        (LET back(r) == [r EXCEPT !.s = [WithEnv(r.s, caller) EXCEPT !.frame = s.frame]] IN
    IF Len(decl.param_names) # Len(args)
    THEN Raise(s, "RuntimeError", "call: want, got args")
    ELSE Bind([s1 \in {enter_scope(call_env)} |->
             Bind([d \in {declare_params(s1, decl.param_names, args)} |->
             Bind([b \in {IF ~IsOk(d) THEN d
                  ELSE visit_block_stmt(decl.body_block,
                                        Log(d.s, "body", decl.col,
                                            [fn |-> fn, name |-> decl.name,
                                             frame |-> d.s.frame]))} |->
             Bind([r \in {[b EXCEPT !.s = exit_scope(b.s)]} |->
         IF r.sig = "Return" THEN back(Ok(r.s, r.val)) ELSE back(r)])])])]))])])])

\* A call that does not compare the callee with fn_prototype, which is an object()
\* and not callable.
evaluate_call_expr_unchecked(call, s) ==
    Bind([s0 \in {Log(s, "eval_call", call.col,
                      [frame |-> s.frame, view |-> EnvView(s), out |-> s.out])} |->
    Bind([res \in {
        Bind([a \in {evaluate_exprs(call.args, s0, <<>>)} |->
        IF ~IsOk(a) THEN a
        ELSE Bind([f0 \in {evaluate_expr(call.callee, a.s)} |->
             Bind([f \in {[f0 EXCEPT !.s = Log(@, "callee", call.col,
                                [frame |-> s.frame, sig |-> f0.sig, val |-> f0.val,
                                 nargs |-> Len(a.val), args |-> a.val,
                                 view |-> EnvView(f0.s), out |-> f0.s.out])]} |->
             IF ~IsOk(f) THEN f
             ELSE IF f.val.k = "fn"
             THEN IF f.s.fuel = 0 THEN Raise(f.s, "OutOfFuel", "")
                  ELSE Bind([s1 \in {Log([f.s EXCEPT !.fuel = @ - 1], "call", call.col,
                                     [fn |-> f.val.n, frame |-> s.frame,
                                      callee |-> f.s.nframes + 1, nargs |-> Len(a.val)])} |->
                           Bind([r \in {compiled(f.val.n, a.val, s1)} |->
                           Bind([s2 \in {Log(r.s, "return", call.col,
                                     [fn |-> f.val.n, frame |-> s.frame,
                                      callee |-> f.s.nframes + 1, sig |-> r.sig,
                                      val |-> r.val, pre |-> EnvView(f.s),
                                      post |-> EnvView(r.s)])} |->
                       IF r.sig \in {"ok", "OutOfFuel"} THEN [r EXCEPT !.s = s2]
                       ELSE Raise(s2, "RuntimeError", "error calling")])])])
             ELSE IF f.val.k = "builtin"
             THEN Bind([r \in {call_builtin(f.s, f.val.n, a.val)} |->
                  IF IsOk(r) THEN r ELSE Raise(r.s, "RuntimeError", "error calling")])
             ELSE Raise(f.s, "RuntimeError", "cannot call non-callable value")])])])} |->
    [res EXCEPT !.s = Log(@, "call_done", call.col,
                          [frame |-> s.frame, sig |-> res.sig, err |-> res.err,
                           val |-> res.val])]])])

evaluate_call_expr(call, s) ==
    Bind([s0 \in {Log(s, "eval_call", call.col,
                      [frame |-> s.frame, view |-> EnvView(s), out |-> s.out])} |->
    Bind([res \in {
        Bind([a \in {evaluate_exprs(call.args, s0, <<>>)} |->
        IF ~IsOk(a) THEN a
        ELSE Bind([f0 \in {evaluate_expr(call.callee, a.s)} |->
             Bind([f \in {[f0 EXCEPT !.s = Log(@, "callee", call.col,
                                [frame |-> s.frame, sig |-> f0.sig, val |-> f0.val,
                                 nargs |-> Len(a.val), args |-> a.val,
                                 view |-> EnvView(f0.s), out |-> f0.s.out])]} |->
             IF ~IsOk(f) THEN f
             ELSE IF f.val = fn_prototype
             THEN Raise(f.s, "RuntimeError", "cannot call fn before it is defined")
             ELSE IF f.val.k = "fn"
             THEN IF f.s.fuel = 0 THEN Raise(f.s, "OutOfFuel", "")
                  ELSE Bind([s1 \in {Log([f.s EXCEPT !.fuel = @ - 1], "call", call.col,
                                     [fn |-> f.val.n, frame |-> s.frame,
                                      callee |-> f.s.nframes + 1, nargs |-> Len(a.val)])} |->
                           Bind([r \in {compiled(f.val.n, a.val, s1)} |->
                           Bind([s2 \in {Log(r.s, "return", call.col,
                                     [fn |-> f.val.n, frame |-> s.frame,
                                      callee |-> f.s.nframes + 1, sig |-> r.sig,
                                      val |-> r.val, pre |-> EnvView(f.s),
                                      post |-> EnvView(r.s)])} |->
                       IF r.sig \in {"ok", "OutOfFuel"} THEN [r EXCEPT !.s = s2]
                       ELSE Raise(s2, "RuntimeError", "error calling")])])])
             ELSE IF f.val.k = "builtin"
             THEN Bind([r \in {call_builtin(f.s, f.val.n, a.val)} |->
                  IF IsOk(r) THEN r ELSE Raise(r.s, "RuntimeError", "error calling")])
             ELSE Raise(f.s, "RuntimeError", "cannot call non-callable value")])])])} |->
    [res EXCEPT !.s = Log(@, "call_done", call.col,
                          [frame |-> s.frame, sig |-> res.sig, err |-> res.err,
                           val |-> res.val])]])])

\* The node types the programs of this model evaluate.
evaluate_expr(expr, s) ==
    CASE expr.t = "CallExpr" -> evaluate_call_expr(expr, s)
      [] expr.t \in SimpleLitTypes -> Ok(s, expr.val)
      [] expr.t = "AssignmentExpr" -> evaluate_assignment_expr(expr, s)
      [] expr.t = "AccessExpr" -> lookup(s, expr.name)

\* A closure whose captured environment holds copies of the bindings, made when the
\* function is compiled, in place of the bindings themselves.
compile_fn_snapshot(decl, s) ==
    Bind([captured_env \in {[stack |-> [i \in 1..Len(s.stack) |-> Len(s.heap) + i],
                             offsets |-> s.offsets, decls |-> s.decls]} |->
    Ok([s EXCEPT !.heap = @ \o EnvView(s).stack,
                 !.fns = Append(@, [decl |-> decl, captured_env |-> captured_env,
                                    defined |-> EnvView(s)])],
       Val("fn", Len(s.fns) + 1))])

\* _compile_fn: the closure is the pair (decl, captured_env); val is its index in
\* fns.  defined is history: the bindings captured, as they were at that moment.
compile_fn(decl, s) ==
    Bind([captured_env \in {copy(s)} |->
    Ok([s EXCEPT !.fns = Append(@, [decl |-> decl, captured_env |-> captured_env,
                                    defined |-> EnvView(s)])],
       Val("fn", Len(s.fns) + 1))])

visit_fn_definition(decl, s) ==
    Bind([c \in {compile_fn(decl, s)} |->
        Bind([a \in {assign(c.s, decl.name, c.val)} |->
    IF ~IsOk(a) THEN a
    ELSE Ok(Log(a.s, "define", decl.col, [name |-> decl.name, fn |-> c.val.n]), NullVal)])])

\* evaluate, lines 89-91: a fresh RuntimeEnv with every built-in pushed.
RECURSIVE push_builtins(_, _)
push_builtins(s, i) ==
    IF i > Len(built_in_fns) THEN s
    ELSE push_builtins(push(s, built_in_fns[i], BuiltinVal(i)), i + 1)

\* evaluate, lines 95-97: the pass that declares the prototypes.
RECURSIVE declare_prototypes(_, _)
declare_prototypes(top_level_nodes, s) ==
    IF top_level_nodes = <<>> THEN Ok(s, NullVal)
    ELSE Bind([node \in {Head(top_level_nodes)} |->
         IF node.t = "FnDefinition" /\ ~has(s, node.name)
         THEN Bind([d \in {declare(s, node.name, fn_prototype)} |->
              IF ~IsOk(d) THEN d ELSE declare_prototypes(Tail(top_level_nodes), d.s)])
         ELSE declare_prototypes(Tail(top_level_nodes), s)])

(***************************************************************************)
(* Programs.  A source text is given by its words (the lexemes in order);  *)
(* WordKind classifies a word as the lexer does and TokensOf gives the     *)
(* token list lex returns, each token stamped with line 1 and its index as *)
(* column, closed by EOF.                                                  *)
(***************************************************************************)
IntWords == {"0", "1", "2", "3", "4", "5", "6", "7", "8", "42", "99"}

WordKind(w) ==
    CASE w \in KEYWORDS -> KeywordKind(w)
      [] w \in {"true", "false"} -> "BOOL_LIT"
      [] w = "null" -> "NULL_LIT"
      [] w \in SYNTAX -> SyntaxKind(w)
      [] w \in IntWords -> "INT_LIT"
      [] OTHER -> "IDENTIFIER"

TokensOf(words) ==
    [i \in 1..(Len(words) + 1) |->
        IF i <= Len(words) THEN Token(WordKind(words[i]), words[i], 1, i)
        ELSE Token("EOF", "", 1, i)]

RECURSIVE Concat(_)
Concat(seqs) == IF seqs = <<>> THEN <<>> ELSE Head(seqs) \o Concat(Tail(seqs))

\* All sequences over S of length 0..n.
SeqsUpTo(S, n) == UNION {[1..k -> S] : k \in 0..n}

(***************************************************************************)
(* The programs checked.  Each family is every sequence, up to a length,   *)
(* over a pool of top-level items or of loop-body statements.              *)
(***************************************************************************)
\* Top-level items of a program that defines and calls functions.
MaxItems == 4

\* Top-level items of a program of nested scopes or of try statements.
MaxNested == 3

\* Statements of a loop body.
MaxBody == 2

\* Calls and loop iterations a run may start.
MaxFuel == 3

LetX == <<"let", "x", "=", "1", ";">>

FnGet == <<"fn", "get", "(", ")", "{", "return", "x", ";", "}">>

AssignX == <<"x", "=", "99", ";">>

PrintGet == <<"print", "(", "get", "(", ")", ")", ";">>

\* A closure that reads a top-level variable, which the top level writes.
ReadPool == {LetX, FnGet, AssignX, PrintGet}

ReadPrograms == {Concat(q) : q \in SeqsUpTo(ReadPool, MaxItems)}

FnSet == <<"fn", "set", "(", ")", "{", "x", "=", "2", ";", "let", "y", "=", "3", ";", "}">>

CallSet == <<"set", "(", ")", ";">>

PrintX == <<"print", "(", "x", ")", ";">>

\* A closure that writes a top-level variable, which the top level reads.
WritePool == {LetX, FnSet, CallSet, PrintX}

WritePrograms == {Concat(q) : q \in SeqsUpTo(WritePool, MaxItems)}

FnF == <<"fn", "f", "(", ")", "{", "return", "g", "(", ")", ";", "}">>

FnG == <<"fn", "g", "(", ")", "{", "return", "7", ";", "}">>

PrintF == <<"print", "(", "f", "(", ")", ")", ";">>

\* Functions that name one another in either textual order.
ForwardPool == {FnF, FnG, PrintF}

ForwardPrograms == {Concat(q) : q \in SeqsUpTo(ForwardPool, MaxItems)}

IfShadow == <<"if", "(", "true", ")", "{", "let", "x", "=", "2", ";",
              "print", "(", "x", ")", ";", "}">>

WhileShadow == <<"while", "(", "true", ")", "{", "let", "x", "=", "3", ";",
                 "print", "(", "x", ")", ";", "break", ";", "}">>

TryShadow == <<"try", "{", "let", "x", "=", "4", ";", "x", "=", "5", ";",
               "print", "(", "x", ")", ";", "foo", "(", ")", ";", "}",
               "catch", "{", "let", "x", "=", "6", ";", "print", "(", "x", ")", ";", "}">>

\* A name declared again in the scopes of an if, a loop body, a try and a catch.
ScopePool == {LetX, PrintX, IfShadow, WhileShadow, TryShadow}

ScopePrograms == {Concat(q) : q \in SeqsUpTo(ScopePool, MaxNested)}

BlockShadow == <<"{", "let", "x", "=", "2", ";", "print", "(", "x", ")", ";", "}">>

\* let x = 1; { let x = 2; print(x); } print(x);
BlockProgram == LetX \o BlockShadow \o PrintX

\* A braced block in statement position.
BlockPool == {LetX, BlockShadow, PrintX}

BlockPrograms == {Concat(q) : q \in SeqsUpTo(BlockPool, MaxNested)}

TryUndefined == <<"try", "{", "foo", "(", ")", ";", "}",
                  "catch", "(", "e", ")", "{", "print", "(", "5", ")", ";", "}">>

TryRedeclare == <<"try", "{", "let", "y", "=", "1", ";", "let", "y", "=", "2", ";", "}",
                  "catch", "{", "print", "(", "6", ")", ";", "}">>

TryBuiltin == <<"try", "{", "add", "(", "null", ",", "1", ")", ";", "}",
                "catch", "(", "e", ")", "{", "print", "(", "7", ")", ";", "}">>

TryArity == <<"try", "{", "h", "(", "1", ")", ";", "}",
              "catch", "{", "print", "(", "8", ")", ";", "}">>

FnH == <<"fn", "h", "(", ")", "{", "try", "{", "return", "42", ";", "}",
         "catch", "{", "return", "0", ";", "}", "}">>

FnK == <<"fn", "k", "(", ")", "{", "try", "{", "foo", "(", ")", ";", "}",
         "catch", "{", "return", "7", ";", "}", "}">>

PrintH == <<"print", "(", "h", "(", ")", ")", ";">>

PrintK == <<"print", "(", "k", "(", ")", ")", ";">>

\* try/catch around each kind of runtime error, and around a return in a function.
TryPool == {TryUndefined, TryRedeclare, TryBuiltin, TryArity,
            FnH \o PrintH, FnK \o PrintK}

TryPrograms == {Concat(q) : q \in SeqsUpTo(TryPool, MaxNested)}

\* for ( let i = 0 ; lt ( i , 2 ) ; POST ) { BODY }
ForInit == <<"for", "(", "let", "i", "=", "0", ";", "lt", "(", "i", ",", "2", ")", ";">>

ForHead(post) == ForInit \o post \o <<")", "{">>

\* The column of the token that stamps the lowered loop: the one after "for".
ForCol == Len(<<"for">>) + 1

\* The column of the first token of POST.
PostCol == Len(ForInit) + 1

Post == <<"i", "=", "add", "(", "i", ",", "1", ")">>

BodyPool ==
    {<<"continue", ";">>,
     <<"break", ";">>,
     <<"print", "(", "i", ")", ";">>,
     <<"if", "(", "eq", "(", "i", ",", "0", ")", ")", "{", "continue", ";", "}">>,
     <<"if", "(", "eq", "(", "i", ",", "1", ")", ")", "{", "break", ";", "}">>,
     <<"try", "{", "continue", ";", "}", "catch", "{", "}">>,
     <<"try", "{", "break", ";", "}", "catch", "{", "}">>,
     <<"try", "{", "foo", "(", ")", ";", "}", "catch", "(", "e", ")", "{",
       "print", "(", "5", ")", ";", "}">>}

ForPrograms ==
    {ForHead(post) \o Concat(q) \o <<"}">> :
        post \in {Post, <<>>}, q \in SeqsUpTo(BodyPool, MaxBody)}

\* Conditions of an if: c2 may be a call that prints, so that evaluating it shows.
CondTrue == <<"true">>

CondFalse == <<"false">>

CondPrint == <<"print", "(", "4", ")">>

\* if (c1) { print(1); } else if (c2) { print(2); }  [ else { print(3); } ]
ElseIf(c1, c2, with_else) ==
    <<"if", "(">> \o c1 \o <<")", "{", "print", "(", "1", ")", ";", "}", "else", "if", "(">>
    \o c2 \o <<")", "{", "print", "(", "2", ")", ";", "}">>
    \o (IF with_else THEN <<"else", "{", "print", "(", "3", ")", ";", "}">> ELSE <<>>)

ElseIfPrograms ==
    {ElseIf(c1, c2, e) : c1 \in {CondTrue, CondFalse},
                         c2 \in {CondTrue, CondFalse, CondPrint}, e \in BOOLEAN}

\* Calls of the undefined name foo whose argument has a side effect.
TryFooAssign == <<"try", "{", "foo", "(", "x", "=", "2", ")", ";", "}", "catch", "{", "}">>

TryFooPrint == <<"try", "{", "foo", "(", "print", "(", "1", ")", ")", ";", "}",
                 "catch", "{", "}">>

FooPrintTwice == <<"foo", "(", "print", "(", "1", ")", ",", "print", "(", "2", ")", ")", ";">>

CallOrderPool == {LetX, TryFooAssign, TryFooPrint, FooPrintTwice, PrintX}

CallOrderPrograms == {Concat(q) : q \in SeqsUpTo(CallOrderPool, MaxNested)}

\* The most arguments of a call of or / and.
MaxArgs == 3

ArgLits == {"0", "2", "false", "true"}

RECURSIVE CommaList(_)
CommaList(q) ==
    IF Len(q) <= 1 THEN q ELSE <<Head(q), ",">> \o CommaList(Tail(q))

\* print(NAME(a1, ..., an));
PrintCall(name, q) == <<"print", "(", name, "(">> \o CommaList(q) \o <<")", ")", ";">>

\* or and and on one to MaxArgs literals.
LogicPrograms ==
    {PrintCall(name, q) : name \in {"or", "and"}, q \in SeqsUpTo(ArgLits, MaxArgs) \ {<<>>}}

TryBoom == <<"try", "{", "boom", "(", ")", ";", "}",
             "catch", "(", "e", ")", "{", "print", "(", "1", ")", ";", "}">>

FnCallsBoom == <<"fn", "f", "(", ")", "{", "boom", "(", ")", ";", "}">>

TryF == <<"try", "{", "f", "(", ")", ";", "}", "catch", "{", "print", "(", "3", ")", ";", "}">>

CallBoom == <<"boom", "(", ")", ";">>

PrintTwo == <<"print", "(", "2", ")", ";">>

\* Programs run with EmbedderFns: boom called in a try body, directly and through a
\* user function, and at the top level.
BoomPool == {TryBoom, FnCallsBoom, TryF, CallBoom, PrintTwo}

BoomPrograms == {Concat(q) : q \in SeqsUpTo(BoomPool, MaxNested)}

\* The most constructs around a jump statement.
MaxWrap == 2

\* body inside one construct; a function is followed by a call of it.
Wrap(kind, body) ==
    CASE kind = "if" -> <<"if", "(", "true", ")", "{">> \o body \o <<"}">>
      [] kind = "try" -> <<"try", "{">> \o body \o <<"}", "catch", "{", "}">>
      [] kind = "catch" -> <<"try", "{", "}", "catch", "{">> \o body \o <<"}">>
      [] kind = "while" -> <<"while", "(", "true", ")", "{">> \o body \o <<"}">>
      [] kind = "for" -> <<"for", "(", ";", ";", ")", "{">> \o body \o <<"}">>
      [] kind = "foreach" ->
           <<"for", "(", "let", "i", "in", "range", "(", "2", ")", ")", "{">>
           \o body \o <<"}">>
      [] kind = "fn" -> <<"fn", "f", "(", ")", "{">> \o body \o <<"}", "f", "(", ")", ";">>

\* body inside the constructs of kinds, the first one outermost.
RECURSIVE WrapAll(_, _)
WrapAll(kinds, body) ==
    IF kinds = <<>> THEN body ELSE Wrap(Head(kinds), WrapAll(Tail(kinds), body))

WrapKinds == {"if", "try", "catch", "while", "for", "foreach", "fn"}

\* A function definition is a top-level node: fn only as the outermost construct.
JumpContexts ==
    {q \in SeqsUpTo(WrapKinds, MaxWrap) : \A i \in 2..Len(q) : q[i] # "fn"}

Jumps == {<<"break", ";">>, <<"continue", ";">>, <<"return", ";">>}

\* A break, continue or return inside up to MaxWrap constructs.
JumpPrograms == {WrapAll(q, j) : q \in JumpContexts, j \in Jumps}

\* fn r(n) { let a = n; if (lt(n, 1)) { r(add(n, 1)); } n = add(n, 5);
\*           print(n); print(a); }
FnR == <<"fn", "r", "(", "n", ")", "{", "let", "a", "=", "n", ";",
         "if", "(", "lt", "(", "n", ",", "1", ")", ")", "{",
         "r", "(", "add", "(", "n", ",", "1", ")", ")", ";", "}",
         "n", "=", "add", "(", "n", ",", "5", ")", ";",
         "print", "(", "n", ")", ";", "print", "(", "a", ")", ";", "}">>

CallR0 == <<"r", "(", "0", ")", ";">>

CallR1 == <<"r", "(", "1", ")", ";">>

LetN == <<"let", "n", "=", "7", ";">>

PrintN == <<"print", "(", "n", ")", ";">>

\* A function that calls itself while its own activation goes on, and writes its
\* parameter after the inner call has returned.
RecPool == {FnR, CallR0, CallR1, LetN, PrintN}

RecPrograms == {Concat(q) : q \in SeqsUpTo(RecPool, MaxNested)}

\* Loops nested in the body of for (let i = 0; lt(i, 2); i = add(i, 1)) { }, each
\* with a continue of its own.
InnerHead == <<"for", "(", "let", "j", "=", "0", ";", "lt", "(", "j", ",", "1", ")", ";">>

InnerPost == <<"j", "=", "add", "(", "j", ",", "1", ")">>

NestedFor == InnerHead \o InnerPost \o <<")", "{", "continue", ";", "}">>

NestedForEach ==
    <<"for", "(", "let", "j", "in", "range", "(", "2", ")", ")", "{", "continue", ";", "}">>

NestedWhile ==
    <<"let", "j", "=", "0", ";", "while", "(", "lt", "(", "j", ",", "1", ")", ")", "{",
      "j", "=", "add", "(", "j", ",", "1", ")", ";", "continue", ";", "}">>

PrintI == <<"print", "(", "i", ")", ";">>

NestedPool == {NestedFor, NestedForEach, NestedWhile, PrintI}

NestedPrograms ==
    {ForHead(Post) \o Concat(q) \o <<"}">> : q \in SeqsUpTo(NestedPool, MaxBody)}

FnP == <<"fn", "p", "(", "a", ")", "{", "print", "(", "a", ")", ";", "}">>

CallP0 == <<"p", "(", ")", ";">>

CallP1 == <<"p", "(", "1", ")", ";">>

CallP2 == <<"p", "(", "print", "(", "7", ")", ",", "2", ")", ";">>

TryP0 == <<"try", "{", "p", "(", ")", ";", "}", "catch", "{", "print", "(", "8", ")", ";", "}">>

\* Calls of a function of one parameter with no, one and two arguments.
ArityPool == {CallP0, CallP1, CallP2, TryP0}

ArityPrograms == {FnP \o Concat(q) : q \in SeqsUpTo(ArityPool, MaxBody)}

\* for ( let j in range ( N ) ) { BODY }
EachHead(n) == <<"for", "(", "let", "j", "in", "range", "(", n, ")", ")", "{">>

\* The column of the call that makes the iterable.
IterableCol == Len(<<"for", "(", "let", "j", "in", "range">>)

PrintJ == <<"print", "(", "j", ")", ";">>

PrintDone == <<"print", "(", "4", ")", ";">>

EachPool ==
    {PrintJ,
     <<"continue", ";">>,
     <<"break", ";">>,
     <<"if", "(", "eq", "(", "j", ",", "1", ")", ")", "{", "break", ";", "}">>,
     <<"if", "(", "eq", "(", "j", ",", "0", ")", ")", "{", "continue", ";", "}">>}

EachPrograms ==
    {EachHead(n) \o Concat(q) \o <<"}">> \o PrintDone :
        n \in {"0", "3"}, q \in SeqsUpTo(EachPool, MaxBody)}

\* Statements with a block, a call, a list, a dict, a parameter list and both
\* for-headers; TruncatedPrograms cuts each of them short at every position.
WholePrograms ==
    {<<"fn", "f", "(", "a", ",", "b", ")", "{", "return", "a", ";", "}">>,
     <<"while", "(", "true", ")", "{", "break", ";", "}">>,
     <<"print", "(", "f", "(", "1", ",", "2", ")", ")", ";">>,
     <<"let", "x", "=", "[", "1", ",", "2", "]", ";">>,
     <<"let", "d", "=", "{", "1", ":", "2", ",", "3", ":", "4", "}", ";">>,
     <<"for", "(", "let", "i", "=", "0", ";", "i", ";", "i", "=", "1", ")",
       "{", "continue", ";", "}">>,
     <<"for", "(", "let", "j", "in", "range", "(", "2", ")", ")", "{", "}">>,
     <<"try", "{", "f", "(", ")", ";", "}", "catch", "(", "e", ")", "{", "}">>,
     <<"if", "(", "x", ")", "{", "}", "else", "if", "(", "y", ")", "{", "}",
       "else", "{", "}">>}

TruncatedPrograms ==
    UNION {{SubSeq(w, 1, k) : k \in 0..(Len(w) - 1)} : w \in WholePrograms}

\* Every sequence of a few words that open, close or separate a construct.
MaxWords == 3

OpenWords == {"(", "{", "[", ",", "for", "fn", "x"}

OpenPrograms == SeqsUpTo(OpenWords, MaxWords)

Programs == ReadPrograms \cup WritePrograms \cup ForwardPrograms \cup ScopePrograms
            \cup BlockPrograms \cup TryPrograms \cup ForPrograms \cup ElseIfPrograms
            \cup CallOrderPrograms \cup LogicPrograms \cup JumpPrograms
            \cup RecPrograms \cup NestedPrograms \cup ArityPrograms
            \cup EachPrograms \cup TruncatedPrograms \cup OpenPrograms

(***************************************************************************)
(* The pipeline of liftoff.evaluate (liftoff.py): parse the tokens, then   *)
(* Interpreter.evaluate: push the built-ins, declare the prototypes, and   *)
(* visit the top-level nodes in order.  failure names the exception that   *)
(* ended the run.                                                          *)
(***************************************************************************)
NewEnv ==
    [stack |-> <<>>, offsets |-> <<>>, decls |-> <<{}>>, heap |-> <<>>, fns |-> <<>>,
     out |-> <<>>, log |-> <<>>, frame |-> 0, nframes |-> 0, fuel |-> MaxFuel]

\* The state after Lexer().lex(src) has returned the tokens of a program, in a call
\* evaluate(src, built_in_fns).
Init ==
    /\ lexer = NewLexer
    /\ lex_exc = NoExc
    /\ \/ /\ tokens \in {TokensOf(w) : w \in Programs}
          /\ built_in_fns = BUILT_IN_FNS
       \/ /\ tokens \in {TokensOf(w) : w \in BoomPrograms}
          /\ built_in_fns = EmbedderFns
    /\ parser = NewParser
    /\ phase = "parse"
    /\ ast = <<>>
    /\ pc = 1
    /\ rt = NewEnv
    /\ failure = ""
    /\ prev = Fresh(NewParser)

\* tokens -> Parser().parse(tokens)
Parse ==
    /\ phase = "parse"
    /\ LET r == parse(tokens, parser) IN
        /\ parser' = r.p
        /\ IF Failed(r)
           THEN phase' = "failed" /\ failure' = r.err /\ ast' = ast
           ELSE phase' = "declare" /\ failure' = failure /\ ast' = r.node
    /\ UNCHANGED <<lexer, lex_exc, tokens, built_in_fns, pc, rt, prev>>

\* Interpreter.evaluate up to the end of its first pass.
Declare ==
    /\ phase = "declare"
    /\ LET r == declare_prototypes(ast, push_builtins(NewEnv, 1)) IN
        /\ rt' = r.s
        /\ IF IsOk(r)
           THEN phase' = "run" /\ failure' = failure
           ELSE phase' = "failed" /\ failure' = r.sig
    /\ UNCHANGED <<lexer, lex_exc, tokens, built_in_fns, parser, ast, pc, prev>>

\* How evaluate ends when a visit raises: a Sentinel becomes an InternalError.
Raised(r) == IF r.sig \in Sentinels THEN "InternalError" ELSE r.sig

\* Second pass, a statement: self._visit_stmt(node, env)
VisitStmt ==
    /\ phase = "run"
    /\ pc <= Len(ast)
    /\ IsStmtNode(ast[pc])
    /\ LET r == visit_stmt(ast[pc], rt) IN
        /\ rt' = r.s
        /\ IF IsOk(r)
           THEN pc' = pc + 1 /\ phase' = phase /\ failure' = failure
           ELSE pc' = pc /\ phase' = "failed" /\ failure' = Raised(r)
    /\ UNCHANGED <<lexer, lex_exc, tokens, built_in_fns, parser, ast, prev>>

\* Second pass, a definition: self._visit_fn_definition(node, env)
VisitFnDefinition ==
    /\ phase = "run"
    /\ pc <= Len(ast)
    /\ ~IsStmtNode(ast[pc])
    /\ LET r == visit_fn_definition(ast[pc], rt) IN
        /\ rt' = r.s
        /\ IF IsOk(r)
           THEN pc' = pc + 1 /\ phase' = phase /\ failure' = failure
           ELSE pc' = pc /\ phase' = "failed" /\ failure' = Raised(r)
    /\ UNCHANGED <<lexer, lex_exc, tokens, built_in_fns, parser, ast, prev>>

\* evaluate returns.
Finish ==
    /\ phase = "run"
    /\ pc > Len(ast)
    /\ phase' = "done"
    /\ UNCHANGED <<lexer, lex_exc, tokens, built_in_fns, parser, ast, pc, rt, failure, prev>>

Next == Parse \/ Declare \/ VisitStmt \/ VisitFnDefinition \/ Finish

Spec == Init /\ [][Next]_vars

(***************************************************************************)
(* The lexer on its own: Lexer().lex(src) for every text of up to MaxSrc   *)
(* characters of Alphabet.                                                 *)
(***************************************************************************)
\* Characters of a source text.
MaxSrc == 4

\* One character of each kind _lex_any tells apart; the newline is the whitespace.
Alphabet == {"/", "*", "1", ".", "a", "\n", "\"", ";", "\\"}

\* Texts that open with blanks, with a line comment or with a multiline comment that
\* spans two lines.
Openings ==
    {<<" ", " ">>,
     <<"a", " ", "\n", " ">>,
     <<"/", "/", "a", "\n", " ">>,
     <<"/", "*", "\n", "a", "*", "/">>,
     <<"a", "/", "*", "\n", "\n", "*", "/", " ">>}

Sources ==
    SeqsUpTo(Alphabet, MaxSrc)
    \cup {o \o s : o \in Openings, s \in SeqsUpTo(Alphabet, MaxSrc - 2)}

\* src is the text lex is about to be called with.
LexInit ==
    /\ lexer \in {[NewLexer EXCEPT !.src = src] : src \in Sources}
    /\ lex_exc = NoExc
    /\ tokens = <<>>
    /\ built_in_fns = BUILT_IN_FNS
    /\ parser = NewParser
    /\ phase = "lex"
    /\ ast = <<>>
    /\ pc = 1
    /\ rt = NewEnv
    /\ failure = ""
    /\ prev = Fresh(NewLexer)

\* tokens = Lexer().lex(src)
Lex ==
    /\ phase = "lex"
    /\ LET r == lex(lexer, lexer.src) IN
        /\ lexer' = r.l
        /\ lex_exc' = r.exc
        /\ IF LFailed(r)
           THEN phase' = "failed" /\ failure' = r.exc.type /\ tokens' = tokens
           ELSE phase' = "lexed" /\ failure' = failure /\ tokens' = r.val
    /\ UNCHANGED <<built_in_fns, parser, ast, pc, rt, prev>>

LexNext == Lex

LexSpec == LexInit /\ [][LexNext]_vars

\* Texts of a first call on a Lexer: calls that return, that fail with a syntax error
\* on the first or on a later line, and that fail at the end of the text.
FirstSources ==
    {<<>>,
     <<"a">>,
     <<"a", "\n", "a", ";">>,
     <<"\"", "a">>,
     <<"a", "\n", "\n", ";", "\"", "a">>,
     <<"a", "\n", "*">>,
     <<"1">>,
     <<"/", "*", "\n">>}

\* Texts of a later call on the same Lexer.
LaterSources == SeqsUpTo(Alphabet, MaxSrc - 1)

RelexInit ==
    /\ lexer \in {[NewLexer EXCEPT !.src = src] : src \in FirstSources}
    /\ lex_exc = NoExc
    /\ tokens = <<>>
    /\ built_in_fns = BUILT_IN_FNS
    /\ parser = NewParser
    /\ phase = "lex"
    /\ ast = <<>>
    /\ pc = 1
    /\ rt = NewEnv
    /\ failure = ""
    /\ prev = Fresh(NewLexer)

\* tokens = lexer.lex(src) on a Lexer whose earlier call has returned or raised.  The
\* fields of a Lexer are all a call can see of the calls before it, so one earlier
\* call stands for any number of them.
Relex ==
    /\ phase \in {"lexed", "failed"}
    /\ prev.phase = "new"
    /\ \E src \in LaterSources :
        LET r == lex(lexer, src) IN
            /\ lexer' = r.l
            /\ lex_exc' = r.exc
            /\ IF LFailed(r)
               THEN phase' = "failed" /\ failure' = r.exc.type /\ tokens' = <<>>
               ELSE phase' = "lexed" /\ failure' = "" /\ tokens' = r.val
    /\ prev' = [inst |-> lexer, phase |-> phase]
    /\ UNCHANGED <<built_in_fns, parser, ast, pc, rt>>

RelexNext == Lex \/ Relex

RelexSpec == RelexInit /\ [][RelexNext]_vars

(***************************************************************************)
(* A second parse call on the same Parser: the instance keeps the fields   *)
(* the first call left (parser.py 39-54).                                  *)
(***************************************************************************)
\* The programs of the first call: the ones cut short, among them inside a loop body
\* and inside a function body, the whole ones, the sequences of opening words, and a
\* loop inside a function.
FirstPrograms ==
    TruncatedPrograms \cup WholePrograms \cup OpenPrograms
        \cup {<<"fn", "g", "(", ")", "{", "while", "(", "true", ")", "{", "x">>}

\* The programs of the second call: jumps at the top level, in a block and in an if,
\* and jumps where they are allowed.
LaterPrograms ==
    {<<"break", ";">>, <<"continue", ";">>, <<"return", ";">>, <<"return", "1", ";">>,
     <<"{", "break", ";", "}">>, <<"if", "(", "x", ")", "{", "continue", ";", "}">>,
     <<"try", "{", "return", ";", "}", "catch", "(", "e", ")", "{", "}">>,
     <<"while", "(", "true", ")", "{", "break", ";", "}">>,
     <<"fn", "f", "(", ")", "{", "return", "1", ";", "}">>,
     <<"fn", "f", "(", ")", "{", "}", "return", ";">>,
     <<"while", "(", "x", ")", "{", "}", "continue", ";">>,
     <<>>}

ReparseInit ==
    /\ lexer = NewLexer
    /\ lex_exc = NoExc
    /\ tokens \in {TokensOf(w) : w \in FirstPrograms}
    /\ built_in_fns = BUILT_IN_FNS
    /\ parser = NewParser
    /\ phase = "parse"
    /\ ast = <<>>
    /\ pc = 1
    /\ rt = NewEnv
    /\ failure = ""
    /\ prev = Fresh(NewParser)

Reparse ==
    /\ phase \in {"declare", "failed"}
    /\ prev.phase = "new"
    /\ \E w \in LaterPrograms :
        LET r == parse(TokensOf(w), parser) IN
            /\ tokens' = TokensOf(w)
            /\ parser' = r.p
            /\ IF Failed(r)
               THEN phase' = "failed" /\ failure' = r.err /\ ast' = <<>>
               ELSE phase' = "declare" /\ failure' = "" /\ ast' = r.node
    /\ prev' = [inst |-> parser, phase |-> phase]
    /\ UNCHANGED <<lexer, lex_exc, built_in_fns, pc, rt>>

ReparseNext == Parse \/ Reparse

ReparseSpec == ReparseInit /\ [][ReparseNext]_vars

(***************************************************************************)
(* Properties.  They are stated over rt.log, the record of the steps of    *)
(* the evaluation so far, and over what print has written.                 *)
(***************************************************************************)
Idx == DOMAIN rt.log

Range(f) == {f[i] : i \in DOMAIN f}

\* Whether a binding called name is in a list of bindings.
Binds(stack, name) == \E k \in DOMAIN stack : stack[k].name = name

\* The innermost binding called name in a list of bindings that holds one.
Innermost(stack, name) == stack[Max({k \in DOMAIN stack : stack[k].name = name})]

\* The closure whose body the activation numbered frame runs.
FnOfFrame(frame) ==
    rt.log[CHOOSE j \in Idx : rt.log[j].ev = "body" /\ rt.log[j].x.frame = frame].x.fn

\* The step at i is a read, in a function body, of a binding the closure captured.
CapturedRead(i) ==
    /\ rt.log[i].ev = "lookup"
    /\ rt.log[i].x.sig = "ok"
    /\ rt.log[i].x.frame > 0
    /\ rt.log[i].x.cell \in Range(rt.fns[FnOfFrame(rt.log[i].x.frame)].captured_env.stack)

\* The value the binding read at i had when the closure reading it was defined.
DefinedVal(i) ==
    Innermost(rt.fns[FnOfFrame(rt.log[i].x.frame)].defined.stack, rt.log[i].x.name).val

\* Every assignment before step i to the name read at i was made at the top level.
TopLevelWritesOnly(i) ==
    \A j \in 1..(i - 1) :
        (rt.log[j].ev = "assign" /\ rt.log[j].x.sig = "ok"
         /\ rt.log[j].x.name = rt.log[i].x.name) => rt.log[j].x.frame = 0

\* C1: a function body that reads a variable declared before the function's
\* definition reads the value the variable had when the function was defined,
\* whatever the top level has assigned to the variable since.
C1_CaptureFixedAtDefinition ==
    \A i \in Idx :
        (CapturedRead(i) /\ DefinedVal(i).k # "prototype" /\ TopLevelWritesOnly(i))
            => rt.log[i].x.val = DefinedVal(i)

\* The run of let x = 1; fn get() { return x; } x = 99; print(get()); has printed.
C1_ReadAfterTopLevelWrite ==
    /\ tokens = TokensOf(LetX \o FnGet \o AssignX \o PrintGet)
    /\ phase = "done"
    /\ Len(rt.out) = 1

\* The step at d is the definition of the top-level function called name.
Defines(d, name) == rt.log[d].ev = "define" /\ rt.log[d].x.name = name

\* The step at i is a call with as many arguments as the closure has parameters.
WellFormedCall(i) ==
    /\ rt.log[i].ev = "call"
    /\ rt.log[i].x.nargs = Len(rt.fns[rt.log[i].x.fn].decl.param_names)

\* C2: once a top-level function g has been defined, a function body that names g
\* reads g's closure, not the prototype, whichever of the two functions the text
\* defines first, and a call of the closure runs g's body.
C2_ForwardDeclaredResolves ==
    /\ \A i \in Idx :
         (CapturedRead(i) /\ \E d \in 1..(i - 1) : Defines(d, rt.log[i].x.name))
            => /\ rt.log[i].x.val.k = "fn"
               /\ rt.fns[rt.log[i].x.val.n].decl.name = rt.log[i].x.name
    /\ \A i \in Idx :
         WellFormedCall(i)
            => \E j \in Idx :
                 /\ j > i
                 /\ rt.log[j].ev = "body"
                 /\ rt.log[j].x.fn = rt.log[i].x.fn
                 /\ rt.log[j].x.frame = rt.log[i].x.callee
                 /\ rt.log[j].x.name = rt.fns[rt.log[i].x.fn].decl.name

\* f, defined before g, has called g: g's body ran in an activation f's body started.
C2_CalledLaterDefined ==
    /\ rt.out = <<<<IntVal(7)>>>>
    /\ \E df \in Idx :
         /\ Defines(df, "f")
         /\ \E dg \in Idx :
              /\ df < dg
              /\ Defines(dg, "g")
              /\ \E i \in Idx :
                   /\ dg < i
                   /\ CapturedRead(i)
                   /\ rt.log[i].x.name = "g"
                   /\ rt.log[i].x.val.k = "fn"
                   /\ \E j \in Idx :
                        /\ i < j
                        /\ rt.log[j].ev = "body"
                        /\ rt.log[j].x.name = "g"
                        /\ rt.log[j].x.frame > 1

\* C3: a call of a user-defined function that returns normally leaves the caller's
\* environment as it was just before the call: the same bindings with the same
\* values, the same offsets and the same declared names.
C3_CallLeavesCallerEnv ==
    \A i \in Idx :
        (rt.log[i].ev = "return" /\ rt.log[i].x.sig = "ok")
            => rt.log[i].x.post = rt.log[i].x.pre

\* A call has returned normally with a caller's binding holding another value.
C3_CallChangedCallerEnv ==
    \E i \in Idx :
        /\ rt.log[i].ev = "return" /\ rt.log[i].x.sig = "ok"
        /\ rt.log[i].x.post.stack # rt.log[i].x.pre.stack
        /\ rt.log[i].x.post.offsets = rt.log[i].x.pre.offsets

\* The program is a C-style for loop whose header holds a POST expression.
IsForWithPost ==
    /\ Len(tokens) > PostCol
    /\ \A i \in DOMAIN ForInit : tokens[i].val = ForInit[i]
    /\ tokens[PostCol].kind # "RIGHT_PAREN"

\* The step at i is an evaluation of the loop's COND.
CondAt(i) == rt.log[i].ev = "cond" /\ rt.log[i].col = ForCol

\* The step at i is the start of an evaluation of POST.
PostAt(i) == rt.log[i].ev = "stmt" /\ rt.log[i].col = PostCol

\* The step at i is the end of an iteration of the loop.
IteratedAt(i) == rt.log[i].ev = "iterated" /\ rt.log[i].col = ForCol

\* The evaluations of POST in the iteration that ends at step j.
PostsOfIteration(j) ==
    {k \in 1..(j - 1) : PostAt(k) /\ \E i \in 1..(k - 1) :
        CondAt(i) /\ \A m \in (i + 1)..(j - 1) : ~CondAt(m)}

\* C4: in a C-style for loop with a POST, whatever the body, POST is evaluated
\* exactly once in every iteration that ends normally or by continue, before COND
\* is evaluated again, and not at all in an iteration that break ends.
C4_PostOncePerIteration ==
    IsForWithPost =>
        \A j \in Idx :
            IteratedAt(j) =>
                /\ rt.log[j].x.sig \in {"ok", "Continue"}
                      => Cardinality(PostsOfIteration(j)) = 1
                /\ rt.log[j].x.sig = "Break" => PostsOfIteration(j) = {}

\* An iteration of for (let i = 0; lt(i, 2); i = add(i, 1)) { } has ended and COND
\* has been evaluated again with no evaluation of POST in between.
C4_EmptyBodySkipsPost ==
    /\ tokens = TokensOf(ForHead(Post) \o <<"}">>)
    /\ \E j \in Idx : IteratedAt(j) /\ rt.log[j].x.sig = "ok" /\ PostsOfIteration(j) = {}
    /\ Cardinality({i \in Idx : CondAt(i)}) > 1

\* The step at i is the end of a try/catch statement.
TryDone(i) == rt.log[i].ev = "try_done"

\* The step at j is the end of the iteration in which step i happened.
EndsIterationOf(j, i) ==
    /\ i < j
    /\ rt.log[j].ev = "iterated"
    /\ rt.log[j].x.frame = rt.log[i].x.frame
    /\ \A k \in (i + 1)..(j - 1) :
         ~(rt.log[k].ev = "iterated" /\ rt.log[k].x.frame = rt.log[i].x.frame)

\* The step at k is the next evaluation of the condition of the loop whose iteration
\* ended at step j, in the same execution of the loop statement: the statement was
\* not started again in between.
LoopGoesOn(j, k) ==
    /\ k > j
    /\ rt.log[k].ev = "cond"
    /\ rt.log[k].col = rt.log[j].col
    /\ rt.log[k].x.frame = rt.log[j].x.frame
    /\ \A m \in (j + 1)..(k - 1) :
           ~(rt.log[m].ev = "stmt" /\ rt.log[m].col = rt.log[j].col
             /\ rt.log[m].x.frame = rt.log[j].x.frame
             /\ rt.log[m].x.t \in {"WhileLoopStmt", "IteratorBasedForLoopStmt"})

\* C5: a return, break or continue executed in a try body is not caught: the try
\* statement ends with that transfer, its scope exited and its catch body not run.
\* A return that ends a try statement, from its try or its catch body, is the value
\* of the enclosing call; a break or a continue that ends it ends the iteration of
\* the enclosing loop, which a break leaves and a continue starts again.
C5_TransfersPassThroughTry ==
    \A i \in Idx :
        TryDone(i) =>
            /\ rt.log[i].x.body_sig \in Sentinels
                  => /\ ~rt.log[i].x.caught
                     /\ rt.log[i].x.sig = rt.log[i].x.body_sig
                     /\ rt.log[i].x.val = rt.log[i].x.body_val
                     /\ rt.log[i].x.after = rt.log[i].x.before
            /\ (rt.log[i].x.sig = "Return" /\ rt.log[i].x.frame > 0)
                  => \E j \in Idx :
                       /\ j > i
                       /\ rt.log[j].ev = "return"
                       /\ rt.log[j].x.callee = rt.log[i].x.frame
                       /\ rt.log[j].x.sig = "ok"
                       /\ rt.log[j].x.val = rt.log[i].x.val
            /\ rt.log[i].x.sig \in {"Break", "Continue"}
                  => \E j \in Idx :
                       /\ EndsIterationOf(j, i)
                       /\ rt.log[j].x.sig = rt.log[i].x.sig
                       /\ (\E k \in Idx : LoopGoesOn(j, k))
                             <=> rt.log[i].x.sig = "Continue"

\* A call has returned the 42 of a return in a try body whose catch body returns 0.
C5_ReturnedThroughTry ==
    \E i \in Idx :
        /\ TryDone(i)
        /\ rt.log[i].x.body_sig = "Return"
        /\ ~rt.log[i].x.caught
        /\ \E j \in Idx :
             /\ j > i
             /\ rt.log[j].ev = "return"
             /\ rt.log[j].x.callee = rt.log[i].x.frame
             /\ rt.log[j].x.val = IntVal(42)

\* The catch token of the try statement that starts at token t.
CatchTok(t) ==
    CHOOSE c \in DOMAIN tokens :
        /\ c > t
        /\ tokens[c].kind = "CATCH"
        /\ \A k \in (t + 1)..(c - 1) : tokens[k].kind # "CATCH"

\* Whether the text gives the catch an error variable, its name, and where the
\* catch body starts.
SrcBound(t) == tokens[CatchTok(t) + 1].kind = "LEFT_PAREN"

SrcName(t) == tokens[CatchTok(t) + 2].val

SrcCatchBlock(t) == IF SrcBound(t) THEN CatchTok(t) + 4 ELSE CatchTok(t) + 1

\* The step at j is the catch of the try statement that ends at step i.
CatchOf(j, i) ==
    /\ j < i
    /\ rt.log[j].ev = "catch"
    /\ rt.log[j].col = rt.log[i].col
    /\ rt.log[j].x.frame = rt.log[i].x.frame
    /\ \A k \in (j + 1)..(i - 1) :
         ~(TryDone(k) /\ rt.log[k].col = rt.log[i].col
                      /\ rt.log[k].x.frame = rt.log[i].x.frame)

\* C6: a runtime error raised by a try body is caught: the try scope is exited,
\* the catch body of the text is executed exactly once, in a new scope that binds
\* the error variable when the text names one, that scope is exited and the
\* statement ends without an error.
C6_RuntimeErrorIsCaught ==
    \A i \in Idx :
        (TryDone(i) /\ rt.log[i].x.body_sig = "RuntimeError") =>
            /\ rt.log[i].x.caught
            /\ rt.log[i].x.after_try = rt.log[i].x.before
            /\ rt.log[i].x.after = rt.log[i].x.before
            /\ rt.log[i].x.sig \in {"ok"} \cup Sentinels
            /\ \E j \in Idx :
                 /\ CatchOf(j, i)
                 /\ rt.log[j].x.depths.stack = rt.log[i].x.before.stack
                 /\ rt.log[j].x.depths.offsets = rt.log[i].x.before.offsets + 1
                 /\ rt.log[j].x.bound = SrcBound(rt.log[i].col)
                 /\ SrcBound(rt.log[i].col)
                       => /\ rt.log[j].x.name = SrcName(rt.log[i].col)
                          /\ rt.log[j].x.view.stack[Len(rt.log[j].x.view.stack)].name
                                = SrcName(rt.log[i].col)
                 /\ Cardinality({k \in (j + 1)..(i - 1) :
                        /\ rt.log[k].ev = "block"
                        /\ rt.log[k].col = SrcCatchBlock(rt.log[i].col)
                        /\ rt.log[k].x.frame = rt.log[i].x.frame}) = 1

\* A runtime error raised by a try body in a for loop with a POST has ended the
\* try statement with an error of the host.
C6_CatchLostInForLoop ==
    /\ IsForWithPost
    /\ \E i \in Idx :
         /\ TryDone(i)
         /\ rt.log[i].x.body_sig = "RuntimeError"
         /\ rt.log[i].x.sig = "HostError"

\* The step at i is an assignment to a name that a binding of the environment has.
AssignsBound(i) ==
    rt.log[i].ev = "assign" /\ Binds(rt.log[i].x.pre.stack, rt.log[i].x.name)

\* C7: an assignment name = v, when a binding called name exists, sets every
\* binding called name to v, the shadowed ones like the ones that shadow them,
\* leaves every other binding, the length of the stack, the scope offsets and the
\* declared names as they were, and v is the value of the assignment expression.
C7_AssignSetsEveryBinding ==
    /\ \A i \in Idx :
         AssignsBound(i) =>
            /\ rt.log[i].x.sig = "ok"
            /\ DOMAIN rt.log[i].x.post.stack = DOMAIN rt.log[i].x.pre.stack
            /\ \A k \in DOMAIN rt.log[i].x.pre.stack :
                 rt.log[i].x.post.stack[k] =
                    IF rt.log[i].x.pre.stack[k].name = rt.log[i].x.name
                    THEN Var(rt.log[i].x.name, rt.log[i].x.val)
                    ELSE rt.log[i].x.pre.stack[k]
            /\ rt.log[i].x.post.offsets = rt.log[i].x.pre.offsets
            /\ rt.log[i].x.post.decls = rt.log[i].x.pre.decls
    /\ \A i \in Idx :
         rt.log[i].ev = "assigned" =>
            /\ rt.log[i].x.result = rt.log[i].x.rhs
            /\ \E j \in 1..(i - 1) :
                 /\ AssignsBound(j)
                 /\ rt.log[j].x.name = rt.log[i].x.name
                 /\ rt.log[j].x.val = rt.log[i].x.rhs

\* An assignment has set two bindings of one name, one shadowing the other, which
\* held different values.
C7_AssignedShadowedBinding ==
    \E i \in Idx :
        /\ AssignsBound(i)
        /\ \E k, m \in DOMAIN rt.log[i].x.pre.stack :
             /\ k < m
             /\ rt.log[i].x.pre.stack[k].name = rt.log[i].x.name
             /\ rt.log[i].x.pre.stack[m].name = rt.log[i].x.name
             /\ rt.log[i].x.pre.stack[k].val # rt.log[i].x.pre.stack[m].val
             /\ rt.log[i].x.post.stack[k].val = rt.log[i].x.val
             /\ rt.log[i].x.post.stack[m].val = rt.log[i].x.val

\* The step at i declares a name the current scope has declared already.
Redeclares(i) ==
    /\ rt.log[i].ev = "declare"
    /\ rt.log[i].x.name \in rt.log[i].x.pre.decls[Len(rt.log[i].x.pre.decls)]

\* C8: declaring a name that the current scope has declared already raises a
\* runtime error and leaves the environment as it was: no binding pushed, every
\* binding with its value, the declared names unchanged.
C8_RedeclareRaises ==
    \A i \in Idx :
        Redeclares(i) =>
            /\ rt.log[i].x.sig = "RuntimeError"
            /\ rt.log[i].x.post = rt.log[i].x.pre

\* A let of a name that the scope has declared and bound has raised.
C8_Redeclared ==
    \E i \in Idx :
        /\ Redeclares(i)
        /\ Binds(rt.log[i].x.pre.stack, rt.log[i].x.name)
        /\ rt.log[i].x.sig = "RuntimeError"

\* The step at i enters the scope that the step at j exits.
SameScope(i, j) ==
    /\ i < j
    /\ rt.log[i].ev = "enter"
    /\ rt.log[j].ev = "exit"
    /\ rt.log[j].x.frame = rt.log[i].x.frame
    /\ rt.log[j].x.depth = rt.log[i].x.depth
    /\ \A k \in (i + 1)..(j - 1) :
         ~(rt.log[k].ev = "exit" /\ rt.log[k].x.frame = rt.log[i].x.frame
                                 /\ rt.log[k].x.depth = rt.log[i].x.depth)

\* No step from i to j assigns to name.
Unassigned(name, i, j) ==
    \A k \in i..j : ~(rt.log[k].ev = "assign" /\ rt.log[k].x.name = name)

\* The step at i declares, in a nested scope, a name that an enclosing scope binds.
Shadows(i) ==
    /\ rt.log[i].ev = "declare"
    /\ Binds(rt.log[i].x.pre.stack, rt.log[i].x.name)
    /\ ~Redeclares(i)

\* C9: a name that an enclosing scope binds can be declared in a nested scope; an
\* access yields the innermost binding of the name; and when a scope exits, the
\* bindings that were there when it was entered are there again, each with the
\* value it had unless its name has been assigned to in between.
C9_NestedScopeShadows ==
    /\ \A i \in Idx :
         Shadows(i) =>
            /\ rt.log[i].x.sig = "ok"
            /\ rt.log[i].x.post.stack =
                  Append(rt.log[i].x.pre.stack, Var(rt.log[i].x.name, rt.log[i].x.val))
    /\ \A i \in Idx :
         (rt.log[i].ev = "lookup" /\ Binds(rt.log[i].x.view.stack, rt.log[i].x.name)) =>
            /\ rt.log[i].x.sig = "ok"
            /\ rt.log[i].x.val = Innermost(rt.log[i].x.view.stack, rt.log[i].x.name).val
    /\ \A j \in Idx :
         rt.log[j].ev = "exit" =>
            \A i \in 1..(j - 1) :
                SameScope(i, j) =>
                    /\ DOMAIN rt.log[j].x.view.stack = DOMAIN rt.log[i].x.view.stack
                    /\ \A k \in DOMAIN rt.log[i].x.view.stack :
                         Unassigned(rt.log[i].x.view.stack[k].name, i, j)
                            => rt.log[j].x.view.stack[k] = rt.log[i].x.view.stack[k]

\* An if-branch has declared a name that the top level binds, an access in the
\* branch has yielded the value declared there, and an access after the branch
\* has yielded the other value, which the outer binding had all along.
C9_ShadowedThenRestored ==
    \E i \in Idx :
        /\ rt.log[i].ev = "enter"
        /\ \E d \in Idx :
             /\ i < d
             /\ Shadows(d)
             /\ rt.log[d].x.sig = "ok"
             /\ Binds(rt.log[i].x.view.stack, rt.log[d].x.name)
             /\ Innermost(rt.log[i].x.view.stack, rt.log[d].x.name).val # rt.log[d].x.val
             /\ \E j \in Idx :
                  /\ d < j
                  /\ SameScope(i, j)
                  /\ \E l \in (d + 1)..(j - 1) :
                       /\ rt.log[l].ev = "lookup"
                       /\ rt.log[l].x.name = rt.log[d].x.name
                       /\ rt.log[l].x.val = rt.log[d].x.val
                  /\ \E m \in Idx :
                       /\ j < m
                       /\ rt.log[m].ev = "lookup"
                       /\ rt.log[m].x.name = rt.log[d].x.name
                       /\ rt.log[m].x.frame = rt.log[i].x.frame
                       /\ rt.log[m].x.val =
                             Innermost(rt.log[i].x.view.stack, rt.log[d].x.name).val

\* C10: the parser accepts a braced block in statement position and the block is
\* executed in a scope of its own: let x = 1; { let x = 2; print(x); } print(x);
\* fails neither to parse nor to run, and prints 2 then 1.
C10_BlockStatementRuns ==
    tokens = TokensOf(BlockProgram) =>
        /\ phase # "failed"
        /\ phase = "done" => rt.out = <<<<IntVal(2)>>, <<IntVal(1)>>>>

\* The parse of let x = 1; { let x = 2; print(x); } print(x); has raised a syntax
\* error past the brace, where it reads the entries of a dict literal.
C10_BlockRejected ==
    /\ tokens = TokensOf(BlockProgram)
    /\ phase = "failed"
    /\ failure = "SyntaxError"
    /\ rt.out = <<>>

\* C11: every scope that is entered is exited, however it is left (normally, by
\* break, continue or return, or by an error), and at the exit the lengths of the
\* binding stack, of the offsets and of the declared-name sets are those at the
\* matching entry; no scope is exited that was not entered.
C11_ScopesArePaired ==
    /\ \A i \in Idx :
         rt.log[i].ev = "enter" =>
            \E j \in Idx :
                /\ SameScope(i, j)
                /\ rt.log[j].x.after = rt.log[i].x.before
    /\ \A j \in Idx :
         rt.log[j].ev = "exit" => \E i \in 1..(j - 1) : SameScope(i, j)

\* A scope in which a name was declared has been left by a runtime error, and the
\* three lengths are back to what they were at its entry.
C11_ErrorLeftScope ==
    \E i \in Idx :
        /\ rt.log[i].ev = "enter"
        /\ \E j \in Idx :
             /\ SameScope(i, j)
             /\ rt.log[j].x.after = rt.log[i].x.before
             /\ \E d \in (i + 1)..(j - 1) :
                  /\ rt.log[d].ev = "declare"
                  /\ rt.log[d].x.sig = "ok"
                  /\ rt.log[d].x.frame = rt.log[i].x.frame
                  /\ Len(rt.log[d].x.pre.stack) = rt.log[i].x.before.stack
             /\ rt.log[j - 1].ev = "call_done"
             /\ rt.log[j - 1].x.sig = "RuntimeError"
             /\ rt.log[j - 1].x.frame = rt.log[i].x.frame

\* The step at j ends the call expression whose callee was evaluated at step i.
CallDoneOf(j, i) ==
    /\ i < j
    /\ rt.log[j].ev = "call_done"
    /\ rt.log[j].col = rt.log[i].col
    /\ rt.log[j].x.frame = rt.log[i].x.frame
    /\ \A k \in (i + 1)..(j - 1) :
         ~(rt.log[k].ev = "call_done" /\ rt.log[k].col = rt.log[i].col
                                      /\ rt.log[k].x.frame = rt.log[i].x.frame)

\* The step at i is the evaluation of a callee to the prototype of a function.
CalleeIsPrototype(i) ==
    /\ rt.log[i].ev = "callee"
    /\ rt.log[i].x.sig = "ok"
    /\ rt.log[i].x.val = fn_prototype

\* C12: a call whose callee evaluates to the prototype, at the top level or in a
\* function body, raises the runtime error "cannot call fn ... before it is
\* defined", and no function body is started by it.
C12_PrototypeCallRaises ==
    \A i \in Idx :
        CalleeIsPrototype(i) =>
            \E j \in Idx :
                /\ CallDoneOf(j, i)
                /\ rt.log[j].x.sig = "RuntimeError"
                /\ rt.log[j].x.err = "cannot call fn before it is defined"
                /\ \A k \in (i + 1)..(j - 1) : rt.log[k].ev \notin {"call", "body"}

\* f, called after its definition and before that of g, has called g in its body:
\* the call of g has raised, and the call of f has ended with a runtime error.
C12_PrototypeCalledInBody ==
    \E i \in Idx :
        /\ CalleeIsPrototype(i)
        /\ rt.log[i].x.frame > 0
        /\ rt.log[i + 1].ev = "call_done"
        /\ rt.log[i + 1].x.err = "cannot call fn before it is defined"
        /\ \E j \in Idx :
             /\ j > i + 1
             /\ rt.log[j].ev = "return"
             /\ rt.log[j].x.callee = rt.log[i].x.frame
             /\ rt.log[j].x.sig = "RuntimeError"
        /\ phase = "failed"
        /\ failure = "RuntimeError"

\* The call of lex has ended.
LexEnded == phase \in {"lexed", "failed"}

\* C13: for every source text, lex either returns a list of tokens whose last
\* element is an EOF token and the only one, or raises a syntax error that carries
\* a line and a column; it raises no internal error.
C13_LexReturnsOrSyntaxError ==
    LexEnded =>
        \/ /\ phase = "lexed"
           /\ tokens # <<>>
           /\ tokens[Len(tokens)].kind = "EOF"
           /\ \A i \in 1..(Len(tokens) - 1) : tokens[i].kind # "EOF"
        \/ /\ phase = "failed"
           /\ lex_exc.type = "SyntaxError"
           /\ lex_exc.line >= 1
           /\ lex_exc.col >= 1

\* lex of the text 1, which ends directly after a digit, has raised the internal
\* error of _next: _lex_num_lit peeks past the end of the text.
C13_DigitAtEndIsInternalError ==
    /\ lexer.src = <<"1">>
    /\ phase = "failed"
    /\ lex_exc = InternalErrorOf("lexer: next called on finished lexer")

\* The text starts with the comment opener /* and no */ follows the opener: the
\* end of input comes first.
UnclosedComment(src) ==
    /\ Len(src) >= 2
    /\ src[1] = "/"
    /\ src[2] = "*"
    /\ \A i \in 3..(Len(src) - 1) : ~(src[i] = "*" /\ src[i + 1] = "/")

\* C15: when the end of input comes after a comment opener /* with no closing */,
\* lex fails with the syntax error 'unclosed multiline comment', whatever the
\* unterminated comment holds (nothing, or a text ending in any character).
C15_UnclosedCommentIsSyntaxError ==
    (LexEnded /\ UnclosedComment(lexer.src)) =>
        /\ phase = "failed"
        /\ lex_exc.type = "SyntaxError"
        /\ lex_exc.msg = "unclosed multiline comment"

\* lex of the text /* (an opener with an empty comment) has raised the internal
\* error of _next instead of a syntax error.
C15_EmptyCommentIsInternalError ==
    /\ lexer.src = <<"/", "*">>
    /\ phase = "failed"
    /\ lex_exc.type = "InternalError"

\* What print(n) appends to the output.
Printed(n) == <<IntVal(n)>>

\* The output of  if (c1) { print(1); } else { if (c2) { print(2); } else { print(3); } }
\* (the inner else present or not): c2 is evaluated only when c1 is falsy.
NestedIfOut(c1, c2, with_else) ==
    IF c1 = CondTrue THEN <<Printed(1)>>
    ELSE (IF c2 = CondPrint THEN <<Printed(4)>> ELSE <<>>)
         \o (IF c2 = CondTrue THEN <<Printed(2)>>
             ELSE IF with_else THEN <<Printed(3)>> ELSE <<>>)

\* C16: an else-if chain runs like nested ifs: the run completes without error,
\* with c1 truthy only A runs and c2 is not evaluated, with c1 falsy c2 is
\* evaluated and B runs when it is truthy, C (when present) otherwise.
C16_ElseIfRunsLikeNestedIfs ==
    \A c1 \in {CondTrue, CondFalse}, c2 \in {CondTrue, CondFalse, CondPrint}, e \in BOOLEAN :
        (tokens = TokensOf(ElseIf(c1, c2, e)) /\ phase \in {"done", "failed"}) =>
            /\ phase = "done"
            /\ rt.out = NestedIfOut(c1, c2, e)

\* if (false) { print(1); } else if (true) { print(2); } else { print(3); } has
\* ended in the AttributeError of block.stmts, with nothing printed.
C16_ElseIfRaisesAttributeError ==
    /\ tokens = TokensOf(ElseIf(CondFalse, CondTrue, TRUE))
    /\ phase = "failed"
    /\ failure = "HostError"
    /\ rt.out = <<>>

\* Event i is the start of the evaluation of the call whose callee event is j.
EvalCallOf(i, j) ==
    /\ i < j
    /\ rt.log[i].ev = "eval_call"
    /\ rt.log[i].col = rt.log[j].col
    /\ rt.log[i].x.frame = rt.log[j].x.frame
    /\ \A k \in (i + 1)..(j - 1) :
           ~(rt.log[k].ev = "eval_call" /\ rt.log[k].col = rt.log[j].col
             /\ rt.log[k].x.frame = rt.log[j].x.frame)

\* The evaluation of the callee of the call of event j raised a runtime error.
CalleeRaised(j) ==
    /\ rt.log[j].ev = "callee"
    /\ rt.log[j].x.sig = "RuntimeError"

\* C17: the callee of a call is evaluated before its arguments: when evaluating
\* the callee raises a runtime error, no argument has been evaluated, so the
\* variables and the output are as they were when the call expression started.
C17_FailingCalleeLeavesArgsUnevaluated ==
    \A j \in DOMAIN rt.log :
        CalleeRaised(j) =>
            \A i \in 1..(j - 1) :
                EvalCallOf(i, j) =>
                    /\ rt.log[j].x.view = rt.log[i].x.view
                    /\ rt.log[j].x.out = rt.log[i].x.out

\* foo(print(1), print(2)) with foo undefined has failed with a runtime error
\* after printing 1 and 2: both arguments were evaluated, in order, before foo.
C17_ArgsPrintedBeforeUndefinedCallee ==
    /\ tokens = TokensOf(FooPrintTwice)
    /\ phase = "failed"
    /\ failure = "RuntimeError"
    /\ rt.out = <<Printed(1), Printed(2)>>
    /\ \E j \in DOMAIN rt.log : CalleeRaised(j) /\ rt.log[j].x.nargs = 2

\* Event i is the evaluation of the callee of a call of the built-in name with at
\* least one argument.
CallsBuiltin(i, name) ==
    /\ rt.log[i].ev = "callee"
    /\ rt.log[i].x.sig = "ok"
    /\ rt.log[i].x.val.k = "builtin"
    /\ BUILT_IN_FNS[rt.log[i].x.val.n] = name
    /\ rt.log[i].x.nargs >= 1

\* The first element of vals that is truthy, the last element when none is.
FirstTruthyOrLast(vals) ==
    IF \E i \in DOMAIN vals : Truthy(vals[i])
    THEN vals[CHOOSE i \in DOMAIN vals :
                  Truthy(vals[i]) /\ \A j \in 1..(i - 1) : ~Truthy(vals[j])]
    ELSE vals[Len(vals)]

\* The first element of vals that is falsy, the last element when none is.
FirstFalsyOrLast(vals) ==
    IF \E i \in DOMAIN vals : ~Truthy(vals[i])
    THEN vals[CHOOSE i \in DOMAIN vals :
                  ~Truthy(vals[i]) /\ \A j \in 1..(i - 1) : Truthy(vals[j])]
    ELSE vals[Len(vals)]

\* C18: or, called with one or more arguments, returns the first truthy argument,
\* and the last argument when none is truthy.
C18_OrReturnsFirstTruthyElseLast ==
    \A i \in DOMAIN rt.log :
        CallsBuiltin(i, "or") =>
            \E j \in DOMAIN rt.log :
                /\ CallDoneOf(j, i)
                /\ rt.log[j].x.sig = "ok"
                /\ rt.log[j].x.val = FirstTruthyOrLast(rt.log[i].x.args)

\* or(false), a call with one argument which is falsy, has raised a runtime error.
C18_OrOfOneFalsyRaises ==
    /\ tokens = TokensOf(PrintCall("or", <<"false">>))
    /\ phase = "failed"
    /\ failure = "RuntimeError"
    /\ \E i \in DOMAIN rt.log :
           /\ CallsBuiltin(i, "or")
           /\ rt.log[i].x.args = <<BoolVal(FALSE)>>

\* C19: and, called with one or more arguments, returns the first falsy argument,
\* and the last argument when none is falsy.
C19_AndReturnsFirstFalsyElseLast ==
    \A i \in DOMAIN rt.log :
        CallsBuiltin(i, "and") =>
            \E j \in DOMAIN rt.log :
                /\ CallDoneOf(j, i)
                /\ rt.log[j].x.sig = "ok"
                /\ rt.log[j].x.val = FirstFalsyOrLast(rt.log[i].x.args)

\* and(true), a call with one argument which is truthy, has raised a runtime error.
C19_AndOfOneTruthyRaises ==
    /\ tokens = TokensOf(PrintCall("and", <<"true">>))
    /\ phase = "failed"
    /\ failure = "RuntimeError"
    /\ \E i \in DOMAIN rt.log :
           /\ CallsBuiltin(i, "and")
           /\ rt.log[i].x.args = <<BoolVal(TRUE)>>

\* Event k is an internal error raised while the try body of the try statement that
\* ended at event j was running: after the statement started and before its catch
\* body, if any, began.
RaisedInTryBody(k, j) ==
    /\ rt.log[j].ev = "try_done"
    /\ k > rt.log[j].x.start
    /\ k < j
    /\ rt.log[k].ev = "internal_error"
    /\ \A c \in (rt.log[j].x.start + 1)..(k - 1) :
           ~(rt.log[c].ev = "catch" /\ rt.log[c].col = rt.log[j].col
             /\ rt.log[c].x.frame = rt.log[j].x.frame)

\* C20: an internal error raised while a try body runs, in the body itself or in a
\* user function or a built-in it calls, leaves the try statement as an internal
\* error, and the catch body is not executed.
C20_InternalErrorIsNotCaught ==
    \A j \in DOMAIN rt.log :
        (\E k \in 1..(j - 1) : RaisedInTryBody(k, j)) =>
            /\ rt.log[j].x.caught = FALSE
            /\ rt.log[j].x.sig = "InternalError"

\* try { boom(); } catch (e) { print(1); } print(2); has run to its end and printed
\* 1 and 2: the internal error of boom was caught as a runtime error.
C20_InternalErrorOfBuiltinCaught ==
    /\ tokens = TokensOf(TryBoom \o PrintTwo)
    /\ built_in_fns = EmbedderFns
    /\ phase = "done"
    /\ rt.out = <<Printed(1), Printed(2)>>
    /\ \E j \in DOMAIN rt.log :
           /\ rt.log[j].ev = "try_done"
           /\ rt.log[j].x.caught
           /\ rt.log[j].x.body_sig = "RuntimeError"
           /\ \E k \in 1..(j - 1) : RaisedInTryBody(k, j)

\* The parser has rejected the program with a syntax error.
Rejected == phase = "failed" /\ failure = "SyntaxError"

\* The kinds of token the placement of a jump statement depends on.
Marks == {"WHILE", "FOR", "IF", "ELSE", "TRY", "CATCH", "FN", "LEFT_BRACE", "RIGHT_BRACE",
          "BREAK", "CONTINUE", "RETURN"}

\* The first token of such a kind at or after token i, or the end of the text.
NextMark(toks, i) ==
    IF \E k \in i..Len(toks) : toks[k].kind \in Marks
    THEN CHOOSE k \in i..Len(toks) :
            toks[k].kind \in Marks /\ \A m \in i..(k - 1) : toks[m].kind \notin Marks
    ELSE Len(toks) + 1

\* Some break or continue at or after token i is in no loop body, or some return in
\* no function body, read off the text: blocks holds, for every brace open at
\* token i, the keyword that introduced it, header the last such keyword seen since
\* the last brace.
RECURSIVE MisplacedJumpAt(_, _, _, _)
MisplacedJumpAt(toks, i, blocks, header) ==
    IF i > Len(toks) THEN FALSE
    ELSE CASE toks[i].kind \in {"WHILE", "FOR", "IF", "ELSE", "TRY", "CATCH", "FN"} ->
                MisplacedJumpAt(toks, NextMark(toks, i + 1), blocks, toks[i].kind)
           [] toks[i].kind = "LEFT_BRACE" ->
                MisplacedJumpAt(toks, NextMark(toks, i + 1), Append(blocks, header), "")
           [] toks[i].kind = "RIGHT_BRACE" ->
                MisplacedJumpAt(toks, NextMark(toks, i + 1),
                                SubSeq(blocks, 1, Len(blocks) - 1), "")
           [] toks[i].kind \in {"BREAK", "CONTINUE"} ->
                \/ \A b \in DOMAIN blocks : blocks[b] \notin {"WHILE", "FOR"}
                \/ MisplacedJumpAt(toks, NextMark(toks, i + 1), blocks, header)
           [] toks[i].kind = "RETURN" ->
                \/ \A b \in DOMAIN blocks : blocks[b] # "FN"
                \/ MisplacedJumpAt(toks, NextMark(toks, i + 1), blocks, header)

\* The same, from any token i.
MisplacedJump(toks, i, blocks, header) ==
    MisplacedJumpAt(toks, NextMark(toks, i), blocks, header)

\* The program has a break, continue or return statement.
HasJump(toks) == \E i \in DOMAIN toks : toks[i].kind \in {"BREAK", "CONTINUE", "RETURN"}

\* C14: the parser rejects with a syntax error every program with a break or
\* continue outside the body of a while, for-each or C-style for loop, or a return
\* outside a function body, also when the statement is nested in if or try/catch
\* blocks; it accepts the programs whose jump statements are all placed inside
\* (the programs with a jump statement have no other syntax error than to end too
\* soon, and then the token rejected is the EOF token).
C14_JumpsRejectedOutsideAcceptedInside ==
    phase # "parse" =>
        /\ MisplacedJump(tokens, 1, <<>>, "") => Rejected
        /\ (HasJump(tokens) /\ ~MisplacedJump(tokens, 1, <<>>, "") /\ Rejected) =>
            /\ tokens \in {TokensOf(w) : w \in TruncatedPrograms}
            /\ tokens[parser.pos].kind = "EOF"

\* A break nested in an if and a try block that are in no loop has been rejected.
C14_BreakInIfInTryRejected ==
    /\ tokens = TokensOf(WrapAll(<<"try", "if">>, <<"break", ";">>))
    /\ Rejected
    /\ MisplacedJump(tokens, 1, <<>>, "")

\* The step at i is an assignment to a name that no binding of the environment has.
AssignsUndeclared(i) ==
    /\ rt.log[i].ev = "assign"
    /\ ~Binds(rt.log[i].x.pre.stack, rt.log[i].x.name)

\* C21: an assignment to a name with no binding anywhere in the binding stack
\* raises a runtime error and leaves the environment as it was: no binding is
\* created and no binding changes.
C21_AssignUndeclaredRaises ==
    \A i \in Idx :
        AssignsUndeclared(i) =>
            /\ rt.log[i].x.sig = "RuntimeError"
            /\ rt.log[i].x.post = rt.log[i].x.pre

\* x = 99; has been run at the top level with no x declared, and the run has ended
\* in a runtime error with the bindings unchanged.
C21_AssignedUndeclaredAtTopLevel ==
    /\ phase = "failed"
    /\ failure = "RuntimeError"
    /\ \E i \in Idx :
         /\ AssignsUndeclared(i)
         /\ rt.log[i].x.name = "x"
         /\ rt.log[i].x.frame = 0
         /\ rt.log[i].x.sig = "RuntimeError"
         /\ rt.log[i].x.post.stack = rt.log[i].x.pre.stack

\* The step at w declares, or assigns with success, the name of step i in the
\* activation of step i.
WritesOwn(w, i) ==
    /\ rt.log[w].ev \in {"declare", "assign"}
    /\ rt.log[w].x.sig = "ok"
    /\ rt.log[w].x.name = rt.log[i].x.name
    /\ rt.log[w].x.frame = rt.log[i].x.frame

\* The step at i reads, in the activation of a user function, a name that this
\* activation has declared: a parameter or a local of its own.
ReadsOwn(i) ==
    /\ rt.log[i].ev = "lookup"
    /\ rt.log[i].x.frame > 0
    /\ \E d \in 1..(i - 1) : rt.log[d].ev = "declare" /\ WritesOwn(d, i)

\* C22: an activation reads for a parameter or a local of its own the value that
\* the activation itself last gave it, whatever other activations of the function
\* (recursive ones included) declare or assign under the same name in between; and
\* the stack of the environment a function captured keeps the length it had when
\* the function was compiled.
C22_ActivationsAreIndependent ==
    /\ \A i \in Idx :
         ReadsOwn(i) =>
            \E w \in 1..(i - 1) :
                /\ WritesOwn(w, i)
                /\ \A k \in (w + 1)..(i - 1) : ~WritesOwn(k, i)
                /\ rt.log[i].x.sig = "ok"
                /\ rt.log[i].x.val = rt.log[w].x.val
    /\ \A f \in DOMAIN rt.fns :
         Len(rt.fns[f].captured_env.stack) = Len(rt.fns[f].defined.stack)

\* r(0) has run: the inner activation r(1) printed 6 and 1, and after it the outer
\* one printed 5 and 0, its own parameter and local.
C22_OuterReadsOwnAfterInner ==
    /\ tokens = TokensOf(FnR \o CallR0)
    /\ phase = "done"
    /\ rt.out = <<Printed(6), Printed(1), Printed(5), Printed(0)>>
    /\ \E i \in Idx :
         /\ ReadsOwn(i)
         /\ rt.log[i].x.name = "n"
         /\ \E k \in 1..(i - 1) :
              /\ rt.log[k].ev = "assign"
              /\ rt.log[k].x.name = "n"
              /\ rt.log[k].x.frame > rt.log[i].x.frame

\* for (let i = 0; lt(i, 2); i = add(i, 1)) { try { foo(); } catch (e) { print(5); } }
TryInFor ==
    ForHead(Post)
    \o <<"try", "{", "foo", "(", ")", ";", "}", "catch", "(", "e", ")", "{",
         "print", "(", "5", ")", ";", "}">>
    \o <<"}">>

\* Every try statement in the tree of node has a block as try body, a block as catch
\* body and a name or nothing as error binding.
RECURSIVE TryPartsInPlace(_)
TryPartsInPlace(node) ==
    CASE node.t = "BlockStmt" ->
           \A k \in DOMAIN node.stmts : TryPartsInPlace(node.stmts[k])
      [] node.t = "IfStmt" ->
           /\ TryPartsInPlace(node.if_branch)
           /\ TryPartsInPlace(node.else_branch)
      [] node.t \in {"WhileLoopStmt", "IteratorBasedForLoopStmt", "FnDefinition"} ->
           TryPartsInPlace(node.body_block)
      [] node.t = "TryStmt" ->
           /\ node.try_block.t = "BlockStmt"
           /\ node.catch_block.t = "BlockStmt"
           /\ node.err_var_binding_name.t \in {"str", "None"}
           /\ TryPartsInPlace(node.try_block)
           /\ TryPartsInPlace(node.catch_block)
      [] OTHER -> TRUE

\* C23: the continue rewriting of the C-style for lowering keeps the try statements
\* of the loop body: in the tree the parser returns every try statement has its try
\* body, its catch body and its error name in their places, and when a try body
\* raises a runtime error the catch body, a block, is executed with the error
\* variable bound to the name of the text.
C23_RewriteKeepsTryCatch ==
    /\ \A k \in DOMAIN ast : TryPartsInPlace(ast[k])
    /\ \A j \in Idx :
         rt.log[j].ev = "catch" =>
            /\ rt.log[j].x.block_t = "BlockStmt"
            /\ rt.log[j].x.bound => rt.log[j].x.name # "<node>"

\* The try statement in the body of a for loop with a POST has come out of the
\* parser with the error name as catch body and the catch block as error binding,
\* and the run has ended in an error of the host.
C23_TryPartsSwappedInFor ==
    /\ tokens = TokensOf(TryInFor)
    /\ phase = "failed"
    /\ failure = "HostError"
    /\ ast[1].stmts[2].body_block.stmts[1].t = "TryStmt"
    /\ ast[1].stmts[2].body_block.stmts[1].catch_block.t = "str"
    /\ ast[1].stmts[2].body_block.stmts[1].err_var_binding_name.t = "BlockStmt"

\* The step at i is an evaluation of the condition of a loop nested in the outer one.
InnerCondAt(i) == rt.log[i].ev = "cond" /\ rt.log[i].col # ForCol

\* Steps a..b are one iteration of a nested loop, and a continue ended it.
InnerContinued(a, b) ==
    /\ a < b
    /\ InnerCondAt(a)
    /\ rt.log[b].ev = "iterated"
    /\ rt.log[b].col = rt.log[a].col
    /\ rt.log[b].x.sig = "Continue"
    /\ \A m \in (a + 1)..(b - 1) : rt.log[m].col # rt.log[a].col

\* The loop whose iteration ends at step b is a C-style for loop.
IsCStyleFor(b) ==
    /\ tokens[rt.log[b].col - 1].kind = "FOR"
    /\ tokens[rt.log[b].col + 3].kind = "EQ"

\* The step at k is the start of an evaluation of the POST of the nested C-style for
\* loop whose iteration ends at step b: its header has the shape of the outer one, so
\* its POST is as far from its stamp as the outer POST is from the outer stamp.
InnerPostAt(k, b) ==
    /\ rt.log[k].ev = "stmt"
    /\ rt.log[k].col = rt.log[b].col + (PostCol - ForCol)

\* C24: in the body of a C-style for loop with a POST, an iteration of a nested
\* while, for-each or C-style for loop that its own continue ends evaluates the outer
\* loop's POST not at all, and in a nested C-style for loop evaluates that loop's own
\* POST exactly once.
C24_NestedContinueKeepsOuterPost ==
    IsForWithPost =>
        \A b \in Idx : \A a \in 1..(b - 1) :
            InnerContinued(a, b) =>
                /\ \A k \in a..b : ~PostAt(k)
                /\ IsCStyleFor(b) => Cardinality({k \in a..b : InnerPostAt(k, b)}) = 1

\* In for (...; i = add(i, 1)) { for (...; j = add(j, 1)) { continue; } print(i); } the
\* nested loop's continue has ended an iteration, and the outer body has gone on to
\* print 0.
C24_NestedForContinued ==
    /\ tokens = TokensOf(ForHead(Post) \o NestedFor \o PrintI \o <<"}">>)
    /\ \E b \in Idx : \E a \in 1..(b - 1) : InnerContinued(a, b) /\ IsCStyleFor(b)
    /\ rt.out # <<>> /\ Head(rt.out) = <<IntVal(0)>>

\* How a string literal whose opening quote is before src[i] ends: "closed" at its
\* closing quote, "open" at the end of input, "mid_escape" at the end of input right
\* after the backslash that starts an escape.
RECURSIVE StrScan(_, _, _)
StrScan(src, i, esc) ==
    IF i > Len(src) THEN (IF esc THEN "mid_escape" ELSE "open")
    ELSE IF esc THEN StrScan(src, i + 1, FALSE)
    ELSE IF src[i] = "\\" THEN StrScan(src, i + 1, TRUE)
    ELSE IF src[i] = "\"" THEN "closed"
    ELSE StrScan(src, i + 1, FALSE)

\* The text starts with a string literal that ends as how says.
StartsWithString(src, how) == Len(src) >= 1 /\ src[1] = "\"" /\ StrScan(src, 2, FALSE) = how

\* C25: lex of a text that starts with a string literal not closed before the end of
\* input fails with the syntax error 'unclosed string literal', except that it fails
\* with 'unexpected escape character at end of string literal' when the end of input
\* comes right after the backslash of an escape.
C25_UnclosedStringErrors ==
    LexEnded =>
        /\ StartsWithString(lexer.src, "open") =>
              /\ phase = "failed"
              /\ lex_exc.type = "SyntaxError"
              /\ lex_exc.msg = "unclosed string literal"
        /\ StartsWithString(lexer.src, "mid_escape") =>
              /\ phase = "failed"
              /\ lex_exc.type = "SyntaxError"
              /\ lex_exc.msg = "unexpected escape character at end of string literal"

\* lex of the text "a\ (the end of input right after a backslash) has failed with
\* 'unclosed string literal'.
C25_MidEscapeIsUnclosed ==
    /\ lexer.src = <<"\"", "a", "\\">>
    /\ phase = "failed"
    /\ lex_exc.type = "SyntaxError"
    /\ lex_exc.msg = "unclosed string literal"

\* The text starts with a '.' that no letter, '_' or digit follows: another character
\* follows it, or the end of input.
LoneDot(src) ==
    /\ Len(src) >= 1
    /\ src[1] = "."
    /\ Len(src) >= 2 => ~(IsAlpha(src[2]) \/ src[2] = "_" \/ IsDigit(src[2]))

\* C26: lex of a text that starts with '.' yields an ATTR_ACCESS token first when a
\* letter or '_' follows the '.', a numeric literal with a leading '.' when a digit
\* follows, and fails with the syntax error 'unexpected character' without returning
\* a token when any other character or the end of input follows.
C26_DotStartsTokenOnlyBeforeWordOrDigit ==
    (LexEnded /\ Len(lexer.src) >= 1 /\ lexer.src[1] = ".") =>
        /\ (phase = "lexed" /\ (IsAlpha(lexer.src[2]) \/ lexer.src[2] = "_")) =>
              /\ tokens[1].kind = "ATTR_ACCESS"
              /\ tokens[1].val \in {Slice(lexer.src, 0, n) : n \in 2..Len(lexer.src)}
        /\ (phase = "lexed" /\ IsDigit(lexer.src[2])) =>
              /\ tokens[1].kind = "FLOAT_LIT"
              /\ tokens[1].val \in {Slice(lexer.src, 0, n) : n \in 2..Len(lexer.src)}
        /\ LoneDot(lexer.src) =>
              /\ phase = "failed"
              /\ lex_exc.type = "SyntaxError"
              /\ lex_exc.msg \in {"unexpected character '" \o c \o "'" : c \in Alphabet}

\* lex of the text .; has returned the numeric literal "." and the semicolon.
C26_DotBeforeSemicolonIsFloat ==
    /\ lexer.src = <<".", ";">>
    /\ phase = "lexed"
    /\ tokens[1].kind = "FLOAT_LIT"
    /\ tokens[1].val = "."
    /\ tokens[2].kind = "SEMICOLON"

\* The line and the column of the character after the first p characters of src:
\* every "\n" starts a new line at column 1, every other character is one column.
LineOf(src, p) == 1 + Cardinality({i \in 1..p : src[i] = "\n"})

ColOf(src, p) == p - Max({0} \cup {i \in 1..p : src[i] = "\n"}) + 1

\* The least number of a set of numbers.
Least(S) == CHOOSE x \in S : \A y \in S : x <= y

\* Where the line comment that starts after the first i characters ends: after the
\* next newline, or at the end of input.
LineCommentEnd(src, i) ==
    Least({e \in (i + 3)..Len(src) : src[e] = "\n"} \cup {Len(src)})

\* Where the multiline comment that starts after the first i characters may end:
\* after a '*' '/' that follows the '/' of the opener.
Closers(src, i) == {e \in (i + 3)..Len(src) : src[e - 1] = "*" /\ src[e] = "/"}

\* The characters i+1 .. j of src are blanks and whole comments, nothing else.
RECURSIVE Gap(_, _, _)
Gap(src, i, j) ==
    IF i = j THEN TRUE
    ELSE IF i > j THEN FALSE
    ELSE IF IsSpace(src[i + 1]) THEN Gap(src, i + 1, j)
    ELSE IF src[i + 1] = "/" /\ i + 2 <= Len(src) /\ src[i + 2] = "/"
    THEN Gap(src, LineCommentEnd(src, i), j)
    ELSE IF src[i + 1] = "/" /\ i + 2 <= Len(src) /\ src[i + 2] = "*"
            /\ Closers(src, i) # {}
    THEN Gap(src, Least(Closers(src, i)), j)
    ELSE FALSE

\* The tokens toks[k], toks[k + 1], ... are the tokens of src from its character p + 1
\* on, each with the line and the column of its first character; blanks and comments
\* lie between them, and the EOF token has the position after the last character.
RECURSIVE TokensAt(_, _, _, _)
TokensAt(src, toks, k, p) ==
    IF toks[k].kind = "EOF"
    THEN /\ k = Len(toks)
         /\ Gap(src, p, Len(src))
         /\ toks[k].line = LineOf(src, Len(src))
         /\ toks[k].col = ColOf(src, Len(src))
    ELSE /\ k < Len(toks)
         /\ \E s \in p..(Len(src) - 1) :
               /\ Gap(src, p, s)
               /\ s + Len(toks[k].val) <= Len(src)
               /\ Slice(src, s, s + Len(toks[k].val)) = toks[k].val
               /\ toks[k].line = LineOf(src, s)
               /\ toks[k].col = ColOf(src, s)
               /\ TokensAt(src, toks, k + 1, s + Len(toks[k].val))

\* C27: every token lex returns carries the 1-based line and column of its first
\* source character, counted with one line per "\n" and one column per other
\* character, also after blanks, newlines, line comments and multiline comments, and
\* the EOF token carries the position just past the last character.
C27_TokensCarryTheirPosition ==
    phase = "lexed" => TokensAt(lexer.src, tokens, 1, 0)

\* lex of  a /* two newlines */ blank ;  has returned the semicolon at line 3,
\* column 4 and the EOF token after it.
C27_TokenAfterMultilineComment ==
    /\ lexer.src = <<"a", "/", "*", "\n", "\n", "*", "/", " ", ";">>
    /\ phase = "lexed"
    /\ Len(tokens) = 3
    /\ tokens[2].kind = "SEMICOLON" /\ tokens[2].line = 3 /\ tokens[2].col = 4
    /\ tokens[3].kind = "EOF" /\ tokens[3].line = 3 /\ tokens[3].col = 5

\* The step at d is a declaration of name at top level that succeeded.
TopLevelDecl(d, name) ==
    /\ rt.log[d].ev = "declare"
    /\ rt.log[d].x.frame = 0
    /\ rt.log[d].x.sig = "ok"
    /\ rt.log[d].x.name = name

\* The activation numbered frame has declared name itself before step j.
DeclaredInFrame(frame, name, j) ==
    \E d \in 1..(j - 1) :
        /\ rt.log[d].ev = "declare"
        /\ rt.log[d].x.frame = frame
        /\ rt.log[d].x.name = name

\* The step at j is an access, in the body of a call that runs at step j, to a name
\* that was declared at top level before the call, that the closure did not capture
\* when it was defined, and that its activation has not declared.
ReadsLaterGlobal(j) ==
    /\ rt.log[j].ev = "lookup"
    /\ rt.log[j].x.frame > 0
    /\ \E d \in 1..(j - 1) : TopLevelDecl(d, rt.log[j].x.name)
    /\ ~Binds(rt.fns[FnOfFrame(rt.log[j].x.frame)].defined.stack, rt.log[j].x.name)
    /\ ~DeclaredInFrame(rt.log[j].x.frame, rt.log[j].x.name, j)

\* C28: when the body of a user function accesses a name that was declared at top
\* level only after the function's definition was evaluated (no binding of the name
\* existed then), the access raises the undefined-variable runtime error, also when
\* the call follows the declaration.
C28_LaterGlobalIsUndefinedInBody ==
    \A j \in Idx :
        ReadsLaterGlobal(j) =>
            /\ rt.log[j].x.sig = "RuntimeError"
            /\ rt.log[j].x.cell = 0

\* fn get() { return x; } let x = 1; print(get()); has ended: the body of get looked
\* x up after the declaration, and nothing was printed.
C28_GetBeforeLetXFailed ==
    /\ tokens = TokensOf(FnGet \o LetX \o PrintGet)
    /\ phase = "failed"
    /\ failure = "RuntimeError"
    /\ rt.out = <<>>
    /\ \E j \in Idx : ReadsLaterGlobal(j)

\* The step at i is a call of a user function with a number of arguments that is
\* not the number of its parameters.
ArityMismatch(i) ==
    /\ rt.log[i].ev = "call"
    /\ rt.log[i].x.nargs # Len(rt.fns[rt.log[i].x.fn].decl.param_names)

\* C29: a call of a user function with a number of arguments different from its
\* number of parameters raises a runtime error before anything else happens: the next
\* step is the end of the call with that error, so no scope was entered, no parameter
\* was declared and the body did not start, the caller's environment is as it was, and
\* the call expression raises the runtime error.
C29_ArityMismatchRaisesBeforeBinding ==
    \A i \in Idx :
        ArityMismatch(i) =>
            /\ i < Len(rt.log)
            /\ rt.log[i + 1].ev = "return"
            /\ rt.log[i + 1].x.fn = rt.log[i].x.fn
            /\ rt.log[i + 1].x.sig = "RuntimeError"
            /\ rt.log[i + 1].x.post = rt.log[i + 1].x.pre
            /\ rt.log[i + 2].ev = "call_done"
            /\ rt.log[i + 2].col = rt.log[i].col
            /\ rt.log[i + 2].x.sig = "RuntimeError"

\* fn p(a) { print(a); } p(print(7), 2); has ended in a runtime error: 7 was printed
\* when the arguments were evaluated, and the body of p printed nothing.
C29_TwoArgsForOneParam ==
    /\ tokens = TokensOf(FnP \o CallP2)
    /\ phase = "failed"
    /\ failure = "RuntimeError"
    /\ rt.out = <<<<IntVal(7)>>>>
    /\ \E i \in Idx : ArityMismatch(i)

\* The program is a for-each loop over range(0) or range(3), and a print after it.
IsEach ==
    /\ Len(tokens) > Len(EachHead("3"))
    /\ \E n \in {"0", "3"} : \A i \in DOMAIN EachHead(n) : tokens[i].val = EachHead(n)[i]

\* The items of the loop's iterable, in order.
EachItems == IF tokens[IterableCol + 2].val = "0" THEN <<>> ELSE <<IntVal(0), IntVal(1), IntVal(2)>>

\* The step at i is the loop asking for its next item.
AskAt(i) == rt.log[i].ev = "cond" /\ rt.log[i].col = ForCol

\* The step at i is the binding of the iteration variable to an item.
BindAt(i) == rt.log[i].ev = "bind" /\ rt.log[i].col = ForCol

\* The step at i is the end of an iteration of the loop.
EachDoneAt(i) == rt.log[i].ev = "iterated" /\ rt.log[i].col = ForCol

\* The number of items bound up to step i.
BoundUpTo(i) == Cardinality({b \in 1..i : BindAt(b)})

\* C30: a for-each loop evaluates its iterable once, before it asks for the first
\* item; every item, in order, is bound to the iteration variable in a scope entered
\* for it, which is left when the body has run; after a break no further item is
\* asked for, after a continue or a body that ran to its end the next item is asked
\* for, and the loop ends when the items are used up.
C30_ForEachVisitsItemsInOrder ==
    IsEach =>
        /\ Cardinality({e \in Idx : rt.log[e].ev = "eval_call" /\ rt.log[e].col = IterableCol}) <= 1
        /\ \A i \in Idx :
            /\ AskAt(i) =>
                  /\ \E e \in 1..(i - 1) :
                        rt.log[e].ev = "eval_call" /\ rt.log[e].col = IterableCol
                  /\ Truthy(rt.log[i].x.val) <=> (BoundUpTo(i) < Len(EachItems))
                  /\ Truthy(rt.log[i].x.val) =>
                        /\ i + 2 <= Len(rt.log)
                        /\ rt.log[i + 1].ev = "enter"
                        /\ BindAt(i + 2)
            /\ BindAt(i) =>
                  /\ rt.log[i].x.name = "j"
                  /\ rt.log[i].x.val = EachItems[BoundUpTo(i)]
                  /\ rt.log[i].x.view.stack[Len(rt.log[i].x.view.stack)]
                        = Var("j", EachItems[BoundUpTo(i)])
                  /\ rt.log[i].x.view.offsets[Len(rt.log[i].x.view.offsets)]
                        = Len(rt.log[i].x.view.stack) - 1
                  /\ \E d \in (i + 1)..Len(rt.log) :
                        /\ EachDoneAt(d)
                        /\ \A m \in (i + 1)..(d - 1) : ~AskAt(m) /\ ~BindAt(m)
            /\ EachDoneAt(i) =>
                  /\ rt.log[i - 1].ev = "exit"
                  /\ rt.log[i - 1].x.after = rt.log[Max({a \in 1..i : AskAt(a)}) + 1].x.before
                  /\ rt.log[i].x.sig = "Break" => \A m \in (i + 1)..Len(rt.log) : ~AskAt(m)
                  /\ rt.log[i].x.sig \in {"ok", "Continue"} => (i < Len(rt.log) /\ AskAt(i + 1))

\* for (let j in range(3)) { if (eq(j, 0)) { continue; } print(j); } print(4); has
\* printed 1, 2 and 4: the continue went on to the next item.
C30_ContinueWentOnToNextItem ==
    /\ tokens = TokensOf(EachHead("3")
                         \o <<"if", "(", "eq", "(", "j", ",", "0", ")", ")", "{", "continue", ";", "}">>
                         \o PrintJ \o <<"}">> \o PrintDone)
    /\ phase = "done"
    /\ rt.out = <<<<IntVal(1)>>, <<IntVal(2)>>, <<IntVal(4)>>>>
    /\ \E i \in Idx : EachDoneAt(i) /\ rt.log[i].x.sig = "Continue"

\* C31: whatever call was made on a Lexer before, and however it ended, lex(s) gives
\* what it gives on a new Lexer: the same tokens with the same positions, or the same
\* error at the same position, and the same fields of the instance afterwards.
C31_LexIsRestartable ==
    LexEnded =>
        /\ lexer = lex(NewLexer, lexer.src).l
        /\ lex_exc = lex(NewLexer, lexer.src).exc
        /\ phase = "lexed" <=> ~LFailed(lex(NewLexer, lexer.src))
        /\ phase = "lexed" => tokens = lex(NewLexer, lexer.src).val

\* A call that failed on line 3 of its text with a syntax error left the Lexer at line
\* 3, and the next call, on the text a;, has returned its tokens on line 1.
C31_LexedAfterFailureOnLaterLine ==
    /\ prev.phase = "failed"
    /\ prev.inst.line = 3
    /\ prev.inst.pos > 0
    /\ lexer.src = <<"a", ";">>
    /\ phase = "lexed"
    /\ Len(tokens) = 3
    /\ tokens[1].line = 1 /\ tokens[1].col = 1
    /\ tokens[3].kind = "EOF" /\ tokens[3].line = 1 /\ tokens[3].col = 3

\* C32: in the evaluation of a program the parser accepted no break, continue or
\* return leaves the loop or the call its statement is in: no call ends with one of
\* them, and evaluate does not end with the internal error that reports an escaped
\* sentinel.
C32_NoSentinelEscapes ==
    /\ failure # "InternalError"
    /\ \A j \in Idx :
          rt.log[j].ev \in {"return", "call_done"} => rt.log[j].x.sig \notin Sentinels
    /\ phase \in {"done", "failed"} =>
          \A j \in Idx :
             (rt.log[j].ev = "stmt" /\ rt.log[j].x.frame = 0
              /\ rt.log[j].x.t \in {"BreakStmt", "ContinueStmt"}) =>
                 \E k \in (j + 1)..Len(rt.log) :
                    rt.log[k].ev = "iterated" /\ rt.log[k].x.sig \in {"Break", "Continue"}

\* A run has ended normally in which a loop consumed a continue in one iteration and
\* a break in a later one, and a call consumed a return.
C32_JumpsConsumedAndRunDone ==
    /\ phase = "done"
    /\ \E i \in Idx :
          /\ rt.log[i].ev = "iterated" /\ rt.log[i].x.sig = "Continue"
          /\ \E j \in (i + 1)..Len(rt.log) :
                rt.log[j].ev = "iterated" /\ rt.log[j].x.sig = "Break"

(***************************************************************************)
(* C33.  Whatever token sequence ending with an EOF token the parser is    *)
(* given, parse ends with an AST or with a SyntaxError: it never fails     *)
(* with an out-of-range token access or with the internal error "backup    *)
(* out of range", and its cursor never passes the position after the EOF   *)
(* token, on inputs cut short inside a block, a call, a list, a dict, a    *)
(* parameter list or a for-header too.                                     *)
(***************************************************************************)
\* The parse call has ended with an exception: nothing was evaluated.
ParseFailed == phase = "failed" /\ rt = NewEnv

C33_ParseStaysInsideTokens ==
    /\ tokens # <<>> /\ tokens[Len(tokens)].kind = "EOF" =>
        /\ parser.pos <= Len(tokens)
        /\ ParseFailed => failure = "SyntaxError"
        /\ phase \notin {"parse", "failed"} => parser.pos = Len(tokens) - 1

\* A for-header cut short after "in range ( 2": the EOF token was read and
\* rejected, and the cursor stands right after it.
C33_TruncatedForHeaderRejected ==
    /\ tokens = TokensOf(<<"for", "(", "let", "j", "in", "range", "(", "2">>)
    /\ ParseFailed
    /\ failure = "SyntaxError"
    /\ parser.pos = Len(tokens)

(***************************************************************************)
(* C34.  Every RuntimeEnv the interpreter builds (the running one, the     *)
(* ones closures captured by copy, and each one seen at a scope entry or   *)
(* exit, a declare, a push, an assign or a lookup) is well formed: one     *)
(* more declared-name set than scope offsets, offsets that never decrease  *)
(* and never exceed the length of the binding stack, and every declared    *)
(* name of a scope bound in that scope's segment of the stack.             *)
(***************************************************************************)
\* The segment of scope k of an environment: the positions of its bindings.
Segment(env, k) ==
    ((IF k = 1 THEN 0 ELSE env.offsets[k - 1]) + 1) ..
        (IF k > Len(env.offsets) THEN Len(env.stack) ELSE env.offsets[k])

WellFormedEnv(env) ==
    /\ Len(env.decls) = Len(env.offsets) + 1
    /\ \A k \in DOMAIN env.offsets :
        /\ env.offsets[k] \in 0..Len(env.stack)
        /\ k > 1 => env.offsets[k - 1] <= env.offsets[k]
    /\ \A k \in DOMAIN env.decls : \A name \in env.decls[k] :
        /\ k <= Len(env.offsets) + 1
        /\ \E i \in Segment(env, k) : i \in DOMAIN env.stack /\ env.stack[i].name = name

\* The environments an event of the history shows.
ViewsOf(e) ==
    CASE e.ev \in {"enter", "exit", "lookup", "bind"} -> {e.x.view}
      [] e.ev \in {"assign", "declare"} -> {e.x.pre, e.x.post}
      [] OTHER -> {}

C34_EveryEnvIsWellFormed ==
    /\ WellFormedEnv(EnvView(rt))
    /\ \A f \in DOMAIN rt.fns : WellFormedEnv(EnvView(WithEnv(rt, rt.fns[f].captured_env)))
    /\ \A i \in Idx : \A env \in ViewsOf(rt.log[i]) : WellFormedEnv(env)

\* In a function call, so on a copy of a captured environment whose global scope has
\* declared names, a for-each item was pushed two scopes deep, and that scope has
\* been left since: the stack was cut back to the offset of the scope.
C34_PushedInNestedScopeOfCall ==
    \E j \in Idx : \E k \in Idx :
        /\ rt.log[j].ev = "bind"
        /\ rt.log[j].x.frame > 0
        /\ Len(rt.log[j].x.view.offsets) >= 2
        /\ rt.log[j].x.view.decls[1] # {}
        /\ k > j
        /\ rt.log[k].ev = "exit"
        /\ rt.log[k].x.frame = rt.log[j].x.frame
        /\ rt.log[k].x.depth = Len(rt.log[j].x.view.offsets)
        /\ Len(rt.log[k].x.view.stack) = rt.log[j].x.view.offsets[rt.log[k].x.depth]

(***************************************************************************)
(* C35.  The context flags of a Parser do not leak into its next parse     *)
(* call: whatever the call before left in the instance (a failure inside   *)
(* a loop body or a function body included), the call gives what a new     *)
(* Parser gives on the same tokens, and a break, continue or return at     *)
(* the top level is rejected with a SyntaxError raised at loop depth 0     *)
(* and outside a function.                                                 *)
(***************************************************************************)
\* The second parse call on the instance has ended.
Reparsed == prev.phase # "new" /\ phase \in {"declare", "failed"}

\* The program starts with a jump statement at the top level.
TopLevelJump == tokens[1].kind \in {"BREAK", "CONTINUE", "RETURN"}

C35_FlagsDoNotLeak ==
    Reparsed =>
        /\ parser = parse(tokens, NewParser).p
        /\ failure = parse(tokens, NewParser).err
        /\ (phase = "declare") = ~Failed(parse(tokens, NewParser))
        /\ phase = "declare" => ast = parse(tokens, NewParser).node
        /\ TopLevelJump =>
            /\ phase = "failed"
            /\ failure = "SyntaxError"
            /\ parser = [pos |-> 1, loop_depth |-> 0, in_fn_decl |-> FALSE]

\* The first call failed inside a loop body inside a function body, and the second
\* call rejected a break at the top level.
C35_BreakRejectedAfterFailureInLoop ==
    /\ Reparsed
    /\ prev.phase = "failed"
    /\ prev.inst.loop_depth > 0
    /\ prev.inst.in_fn_decl
    /\ tokens = TokensOf(<<"break", ";">>)
    /\ phase = "failed"
    /\ failure = "SyntaxError"

====
